---- MODULE Spec2Model ----
(***************************************************************************)
(* Three of the servers of the repository.                                 *)
(*                                                                         *)
(* Speed Daemon (src/speed-daemon/src/lib.rs): the shared Database         *)
(* (speed limits, observations, issued days, pending tickets) and the      *)
(* per-connection handler (role, read branch, dispatch pump). Seven        *)
(* specifications share the definitions of the Database methods:           *)
(*   SpecDb    the Database driven through its three methods by arbitrary  *)
(*             call sequences;                                             *)
(*   Spec      the accept loop and the connection handlers that call the   *)
(*             Database on behalf of cameras and dispatchers;              *)
(*   SpecPump  the dispatch pump of the handlers against a Database that   *)
(*             the tasks of other connections fill;                        *)
(*   SpecCam   camera connections on different roads reporting one plate;  *)
(*   SpecLate  dispatchers that declare their roads after tickets were     *)
(*             queued, with the queue length at the declaration recorded;  *)
(*   SpecWire  one connection at the level of bytes: the peer's frames,    *)
(*             the reads that append to buf, the decoder, the match arms   *)
(*             and the heartbeat branch;                                   *)
(*   SpecLock  the handlers with every Database call split into taking     *)
(*             the MutexGuard, the call and the drop of the guard.         *)
(*                                                                         *)
(* Mob in the Middle (src/mob-in-the-middle/src/lib.rs):                   *)
(*   SpecProxy the client-to-server direction of one proxied connection:   *)
(*             reads of fragments, next_line and transform_line.           *)
(*                                                                         *)
(* Budget Chat (src/budget-chat/src/lib.rs):                               *)
(*   SpecChat  the Server task, the client tasks and the channels between  *)
(*             them;                                                       *)
(*   SpecChatFair  the same with the tasks scheduled fairly.               *)
(***************************************************************************)
EXTENDS Integers, Sequences, FiniteSets, TLC

\* ------------------------------------------------------------------ bounds

\* SpecDb: record_observation calls in one behaviour
MaxObs == 4
\* Spec: connections the accept loop hands out in one behaviour
NumConns == 3
\* Spec: Plate reports recorded in one behaviour
MaxReports == 2
\* SpecPump: connections the accept loop hands out in one behaviour
NumPumpConns == 2
\* SpecWire: frames the peer writes to the socket in one behaviour
MaxFrames == 3
\* SpecWire: Heartbeat messages written in one behaviour
MaxBeats == 1

\* SpecProxy: reads of the client socket in one behaviour
MaxFragments == 4
\* SpecChat: clients accepted in one behaviour
NumChatClients == 3
\* SpecChat: lines read from the clients in one behaviour
MaxLines == 4

\* seconds per day, the divisor of the day index
DaySecs == 86400
\* largest value of the u16 speed field
U16Max == 65535

\* ------------------------------------------------------------------ inputs

\* the plate "UN1X" as the bytes of the Vec<u8> that carries it
UN1X == <<85, 78, 49, 88>>
Plates == {UN1X}
Roads == {1, 2}
Limits == {60}
DispatcherRoads == {{1}, {1, 2}}
\* SpecDb: mile markers and timestamps of record_observation calls
DbMiles == {8, 3000}
DbTimestamps == {0, 86400, 86445, 172800}
\* Spec: what cameras declare and report
CamRoads == {1}
CamMiles == {8, 9}
CamTimestamps == {0, 45}
CamDispatcherRoads == {{1}}
\* SpecPump: the mile of the camera a connection may declare itself to be, and
\* the observations other tasks record, <<plate, road, mile, timestamp>>
PumpCamMiles == {8}
PumpObs == { <<UN1X, 1, 8, 0>>, <<UN1X, 1, 9, 45>>,
             <<UN1X, 2, 8, 86400>>, <<UN1X, 2, 9, 86445>> }

\* SpecWire: the connection whose bytes are followed, what its peer writes, the
\* observation a camera's task recorded before it was accepted and the one
\* another camera's task records meanwhile
WireConns == {1}
WireFrames == {
    <<64, 0, 0, 0, 0>>,                       \* WantHeartbeat, interval 0
    <<64, 0, 0, 0, 10>>,                      \* WantHeartbeat, interval 10
    <<64, 2, 143, 92, 41>>,                   \* WantHeartbeat, interval 42949673
    <<64, 64, 0, 0, 0>>,                      \* WantHeartbeat, interval 2^30
    <<128, 0, 1, 0, 8, 0, 60>>,               \* IAmCamera, road 1, mile 8, limit 60
    <<129, 1, 0, 1>>,                         \* IAmDispatcher, roads [1]
    <<32, 4, 85, 78, 49, 88, 0, 0, 0, 45>>,   \* Plate, "UN1X", timestamp 45
    <<153>> }                                 \* no type byte
WireFirstObs == <<UN1X, 1, 8, 0>>
WireObs == { <<UN1X, 1, 9, 45>> }

\* SpecChat: the clients the accept loop numbers, in order
ChatClients == 1..NumChatClients

MaxOf(a, b) == IF a >= b THEN a ELSE b
Conns == 1..MaxOf(NumConns, NumPumpConns)
SpecConns == 1..NumConns
PumpConns == 1..NumPumpConns

VARIABLES
    speed_limits,        \* Database.speed_limits: road -> limit (partial)
    observations,        \* Database.observations: plate -> Seq(Observation)
    tickets_issued,      \* Database.tickets_issued: plate -> Seq(day)
    tickets_to_send,     \* Database.tickets_to_send: Seq(Ticket)
    poisoned,            \* the Database mutex was poisoned by a panic under lock
    mutex,               \* the connection whose task holds the MutexGuard, 0 if none
    enqueued,            \* history: every ticket pushed at line 205, in push order
    nobs,                \* history: number of record_observation calls so far
    pc,                  \* per connection: position of its handler task
    client_type,         \* per connection: handle's client_type
    holding,             \* per connection: the ticket t of the dispatch loop
    sent,                \* per connection: tickets whose write_all returned Ok
    err,                 \* per connection: the Error message handed to write_all
    requested_heartbeat, \* per connection: handle's requested_heartbeat
    heartbeat,           \* per connection: the period of handle's heartbeat interval
    beats,               \* per connection, history: Heartbeat messages written
    inbound,             \* per connection: the frames the peer wrote to the socket
    nread,               \* per connection: how many of their bytes read_buf returned
    buf,                 \* per connection: handle's buf
    applied,             \* per connection, history: packets parse_incoming returned
    declared_at,         \* per connection, history: tickets pushed before IAmDispatcher
    \* Mob in the Middle (src/mob-in-the-middle/src/lib.rs), one proxied client
    proxy_pc,            \* position of handle: "select" or "closed"
    from_client_buf,     \* handle's from_client_buf
    proxy_to_server,     \* the bytes handed to to_server.write_all, in order
    forwarded,           \* history: <<line, what was written for it>>
    proxy_reads,         \* history: reads of the client socket that brought bytes
    \* Budget Chat (src/budget-chat/src/lib.rs)
    task,                \* per client: its Client::run task, "none" before accept
    nick,                \* per client: Client.nick
    to_network,          \* per client: what was handed to to_network.write_all
    to_server,           \* per client: the channel to_server -> from_client
    from_server,         \* per client: the channel to_client -> from_server
    clients,             \* Server.clients, as client ids
    new_clients,         \* the channel of handles from serve to the Server
    relay_off,           \* the Server's select has disabled its relay branch
    read_ended,          \* per client: next_line returned Ok(None) or Err
    said,                \* per client, history: lines read while it had a nick
    nlines               \* history: lines read from all clients

dbvars == <<speed_limits, observations, tickets_issued, tickets_to_send, poisoned>>
hbvars == <<requested_heartbeat, heartbeat, beats>>
rdvars == <<inbound, nread, buf, applied>>
connvars == <<pc, client_type, holding, sent, err, declared_at, hbvars, rdvars>>
daemonvars == <<dbvars, mutex, enqueued, nobs, connvars>>
proxyvars == <<proxy_pc, from_client_buf, proxy_to_server, forwarded, proxy_reads>>
chatvars == <<task, nick, to_network, to_server, from_server, clients, new_clients,
              relay_off, read_ended, said, nlines>>
vars == <<speed_limits, observations, tickets_issued, tickets_to_send, poisoned,
          mutex, enqueued, nobs, pc, client_type, holding, sent, err,
          requested_heartbeat, heartbeat, beats, inbound, nread, buf, applied,
          declared_at, proxyvars, chatvars>>

\* ------------------------------------------------------------- pure parts

Unknown == [kind |-> "Unknown"]
Camera(road, mile, limit) == [kind |-> "Camera", road |-> road, mile |-> mile, limit |-> limit]
Dispatcher(roads) == [kind |-> "Dispatcher", roads |-> roads]

Observation(road, mile, timestamp) == [road |-> road, mile |-> mile, timestamp |-> timestamp]

NoTicket == [plate |-> << >>]
NoError == ""

contains(v, x) == \E i \in 1..Len(v) : v[i] = x

abs_diff(a, b) == IF a >= b THEN a - b ELSE b - a

\* Observation's Ord: by timestamp alone
IsSorted(s) == \A i \in 1..(Len(s) - 1) : s[i].timestamp <= s[i + 1].timestamp

\* p with x inserted before position i
insert_at(p, i, x) ==
    [j \in 1..(Len(p) + 1) |-> IF j < i THEN p[j] ELSE IF j = i THEN x ELSE p[j - 1]]

\* every place where x can stand in the sorted sequence p
sorted_inserts(p, x) ==
    {insert_at(p, i, x) : i \in {k \in 1..(Len(p) + 1) :
        /\ k > 1 => p[k - 1].timestamp <= x.timestamp
        /\ k <= Len(p) => x.timestamp <= p[k].timestamp}}

\* obs.sort_unstable(): some ordering of the same elements that is sorted by
\* the comparison key; the order of equal keys is not specified, so every
\* sorted arrangement of the elements is a possible outcome
RECURSIVE sorted_arrangements(_)
sorted_arrangements(s) ==
    IF Len(s) = 0 THEN {<< >>}
    ELSE UNION {sorted_inserts(p, s[Len(s)]) :
                    p \in sorted_arrangements(SubSeq(s, 1, Len(s) - 1))}

sort_unstable_nosort(s) == {s}
sort_unstable(s) == sorted_arrangements(s)

\* os.iter().filter(|o| o.road == road)
filter_road(s, road) == SelectSeq(s, LAMBDA o : o.road = road)

\* speed > (limit as f64) + 0.1 with
\* speed = abs_diff(mile) as f64 / ((t2 - t1) as f64 / 3600.0):
\* a zero time difference makes the divisor 0.0, so the speed is +inf when the
\* miles differ (inf > limit + 0.1) and NaN when they are equal (NaN > x is false).
\* t2 - t1 is a u32 subtraction; the list is sorted, so t2 >= t1 (were it not,
\* the wrapped difference exceeds 2^31 seconds and no u16 distance is over a limit)
over_limit(o1, o2, limit) ==
    LET d == abs_diff(o2.mile, o1.mile)
        dt == o2.timestamp - o1.timestamp
    IN IF dt < 0 THEN FALSE
       ELSE IF dt = 0 THEN d # 0
       ELSE d * 36000 > (10 * limit + 1) * dt

\* (speed * 100.0).round() as u16: round half away from zero, and the cast
\* saturates (+inf and everything above 65535 becomes 65535)
ticket_speed(o1, o2) ==
    LET d == abs_diff(o2.mile, o1.mile)
        dt == o2.timestamp - o1.timestamp
    IN IF dt = 0 THEN U16Max
       ELSE LET q == (d * 360000) \div dt
                r == (d * 360000) % dt
                rounded == IF 2 * r >= dt THEN q + 1 ELSE q
            IN IF rounded > U16Max THEN U16Max ELSE rounded

day_of(timestamp) == timestamp \div DaySecs

\* issued.contains(&day1) || (day1 != day2 && issued.contains(&day2))
already_issued_day1_only(issued, day1, day2) == contains(issued, day1)
already_issued(issued, day1, day2) ==
    contains(issued, day1) \/ (day1 # day2 /\ contains(issued, day2))

\* lines 193-194: push day1, then day2 when it is another day
push_days_both(issued, day1, day2) == Append(Append(issued, day1), day2)
push_days(issued, day1, day2) ==
    LET a == IF ~contains(issued, day1) THEN Append(issued, day1) ELSE issued
    IN IF day1 # day2 /\ ~contains(a, day2) THEN Append(a, day2) ELSE a

make_ticket(plate, road, o1, o2) ==
    [plate |-> plate, road |-> road,
     mile1 |-> o1.mile, timestamp1 |-> o1.timestamp,
     mile2 |-> o2.mile, timestamp2 |-> o2.timestamp,
     speed |-> ticket_speed(o1, o2)]

\* the body of `for w in obs.windows(2)` from window i on; acc carries the
\* plate's issued days and the tickets pushed so far
RECURSIVE issue_windows(_, _, _, _, _, _)
issue_windows(obs, i, limit, plate, road, acc) ==
    IF i + 1 > Len(obs) THEN acc
    ELSE LET o1 == obs[i]
             o2 == obs[i + 1]
             day1 == day_of(o1.timestamp)
             day2 == day_of(o2.timestamp)
             next == IF over_limit(o1, o2, limit)
                        /\ ~already_issued(acc.issued, day1, day2)
                     THEN [issued |-> push_days(acc.issued, day1, day2),
                           pushed |-> Append(acc.pushed, make_ticket(plate, road, o1, o2))]
                     ELSE acc
         IN issue_windows(obs, i + 1, limit, plate, road, next)

\* Database::issue_tickets on the plate's (already sorted) observation list
issue_tickets_last_window(limit, obs, issued, plate, road) ==
    LET f == filter_road(obs, road)
    IN issue_windows(f, IF Len(f) > 1 THEN Len(f) - 1 ELSE 1, limit, plate, road,
                     [issued |-> issued, pushed |-> <<>>])
issue_tickets(limit, obs, issued, plate, road) ==
    issue_windows(filter_road(obs, road), 1, limit, plate, road,
                  [issued |-> issued, pushed |-> <<>>])

\* self.tickets_to_send.iter().position(|t| roads.contains(&t.road));
\* 0 stands for None
position_none(q, roads) == 0
position_any_road(q, roads) == IF Len(q) > 0 THEN 1 ELSE 0
position_last(q, roads) ==
    IF \E i \in 1..Len(q) : q[i].road \in roads
    THEN CHOOSE i \in 1..Len(q) :
            q[i].road \in roads /\ \A j \in (i + 1)..Len(q) : q[j].road \notin roads
    ELSE 0
position(q, roads) ==
    IF \E i \in 1..Len(q) : q[i].road \in roads
    THEN CHOOSE i \in 1..Len(q) :
            q[i].road \in roads /\ \A j \in 1..(i - 1) : q[j].road \notin roads
    ELSE 0

\* Vec::remove(p)
remove_keep(q, p) == q
remove(q, p) == [i \in 1..(Len(q) - 1) |-> IF i < p THEN q[i] ELSE q[i + 1]]

\* ------------------------------------------------- durations and u32 words

\* std::time::Duration, to the millisecond
from_secs(secs) == [secs |-> secs, millis |-> 0]

\* a u32 word as two 16-bit halves, so that every word can be written down
u32_word(hi, lo) == [panic |-> FALSE, hi |-> hi, lo |-> lo]

\* a * b on u32, for a below 2^31 and b below 2^15: the product when it fits;
\* when it does not, a panic in a build with overflow checks and the product
\* modulo 2^32 in a build without them
u32_mul(a, b) ==
    LET low == (a % (U16Max + 1)) * b
        high == (a \div (U16Max + 1)) * b + low \div (U16Max + 1)
        wrapped == u32_word(high % (U16Max + 1), low % (U16Max + 1))
    IN IF high <= U16Max THEN {wrapped}
       ELSE {[panic |-> TRUE, hi |-> 0, lo |-> 0], wrapped}

\* Duration::from_millis(m as u64) of a u32 word m
from_millis(m) ==
    LET low == (m.hi % 1000) * (U16Max + 1) + m.lo
    IN [secs |-> (m.hi \div 1000) * (U16Max + 1) + low \div 1000,
        millis |-> low % 1000]

\* ------------------------------------------------------------ the decoder

\* nom's IResult: Ok((rest, value)), Err(Incomplete), Err(Error)
Ok(rest, value) == [status |-> "Ok", rest |-> rest, value |-> value]
Incomplete == [status |-> "Incomplete"]
ParseError == [status |-> "Error"]

drop(input, n) == SubSeq(input, n + 1, Len(input))

\* the big-endian value of a byte string (values stay below 2^31 here)
RECURSIVE be_value(_)
be_value(bytes) ==
    IF Len(bytes) = 0 THEN 0
    ELSE be_value(SubSeq(bytes, 1, Len(bytes) - 1)) * 256 + bytes[Len(bytes)]

\* nom::number::streaming::{be_u8, be_u16, be_u32}: w bytes or Incomplete
be_uint_complete(w, input) ==
    IF Len(input) < w THEN ParseError
    ELSE Ok(drop(input, w), be_value(SubSeq(input, 1, w)))
be_uint(w, input) ==
    IF Len(input) < w THEN Incomplete
    ELSE Ok(drop(input, w), be_value(SubSeq(input, 1, w)))
be_u8(input) == be_uint(1, input)
be_u16(input) == be_uint(2, input)
be_u32(input) == be_uint(4, input)

\* nom::bytes::streaming::tag: Error on a mismatch within the bytes present,
\* Incomplete when they match but are too few
tag(t, input) ==
    LET n == IF Len(input) < Len(t) THEN Len(input) ELSE Len(t)
    IN IF SubSeq(input, 1, n) # SubSeq(t, 1, n) THEN ParseError
       ELSE IF Len(input) < Len(t) THEN Incomplete
       ELSE Ok(drop(input, Len(t)), t)

\* nom::multi::length_count(be_u8, g) for g one of be_u8, be_u16: a count
\* byte, then that many items of w bytes; an Incomplete item is returned as is
RECURSIVE count_items(_, _, _, _)
count_items(w, n, input, res) ==
    IF n = 0 THEN Ok(input, res)
    ELSE LET r == be_uint(w, input)
         IN IF r.status # "Ok" THEN r
            ELSE count_items(w, n - 1, r.rest, Append(res, r.value))

length_count(w, input) ==
    LET n == be_u8(input)
    IN IF n.status # "Ok" THEN n ELSE count_items(w, n.value, n.rest, << >>)

parse_str(input) == length_count(1, input)

\* tuple((tag(b"\x20"), parse_str, be_u32))
parse_plate(input) ==
    LET t == tag(<<32>>, input)
    IN IF t.status # "Ok" THEN t
       ELSE LET plate == parse_str(t.rest)
            IN IF plate.status # "Ok" THEN plate
               ELSE LET timestamp == be_u32(plate.rest)
                    IN IF timestamp.status # "Ok" THEN timestamp
                       ELSE Ok(timestamp.rest,
                               [type |-> "PlateReport", plate |-> plate.value,
                                timestamp |-> timestamp.value])

\* tuple((tag(b"\x40"), be_u32))
parse_wantheartbeat(input) ==
    LET t == tag(<<64>>, input)
    IN IF t.status # "Ok" THEN t
       ELSE LET interval == be_u32(t.rest)
            IN IF interval.status # "Ok" THEN interval
               ELSE Ok(interval.rest,
                       [type |-> "WantHeartbeat", interval |-> interval.value])

\* tuple((tag(b"\x80"), be_u16, be_u16, be_u16))
parse_iamcamera(input) ==
    LET t == tag(<<128>>, input)
    IN IF t.status # "Ok" THEN t
       ELSE LET road == be_u16(t.rest)
            IN IF road.status # "Ok" THEN road
               ELSE LET mile == be_u16(road.rest)
                    IN IF mile.status # "Ok" THEN mile
                       ELSE LET limit == be_u16(mile.rest)
                            IN IF limit.status # "Ok" THEN limit
                               ELSE Ok(limit.rest,
                                       [type |-> "IAmCamera", road |-> road.value,
                                        mile |-> mile.value, limit |-> limit.value])

\* tuple((tag(b"\x81"), length_count(be_u8, be_u16)))
parse_iamdispatcher(input) ==
    LET t == tag(<<129>>, input)
    IN IF t.status # "Ok" THEN t
       ELSE LET roads == length_count(2, t.rest)
            IN IF roads.status # "Ok" THEN roads
               ELSE Ok(roads.rest, [type |-> "IAmDispatcher", roads |-> roads.value])

\* alt((..)): the first alternative that does not return Err(Error); an
\* Incomplete ends the search as an Ok does
parse_incoming_lenient(input) ==
    LET plate == parse_plate(input)
        wantheartbeat == parse_wantheartbeat(input)
        iamcamera == parse_iamcamera(input)
        iamdispatcher == parse_iamdispatcher(input)
    IN IF plate.status # "Error" THEN plate
       ELSE IF wantheartbeat.status # "Error" THEN wantheartbeat
       ELSE IF iamcamera.status # "Error" THEN iamcamera
       ELSE IF iamdispatcher.status # "Error" THEN iamdispatcher
       ELSE Incomplete
parse_incoming(input) ==
    LET plate == parse_plate(input)
        wantheartbeat == parse_wantheartbeat(input)
        iamcamera == parse_iamcamera(input)
    IN IF plate.status # "Error" THEN plate
       ELSE IF wantheartbeat.status # "Error" THEN wantheartbeat
       ELSE IF iamcamera.status # "Error" THEN iamcamera
       ELSE parse_iamdispatcher(input)

\* --------------------------------------------------------- Database methods

\* Database::record_speed_limit: HashMap::insert, last writer wins
record_speed_limit(road, limit) ==
    speed_limits' = [r \in (DOMAIN speed_limits) \cup {road} |->
                        IF r = road THEN limit ELSE speed_limits[r]]

\* Database::record_observation, with the call of issue_tickets it makes.
\* The expect() on the road's limit panics while the lock is held when the
\* road has no limit; the observation is already stored by then.
record_observation(plate, road, mile, timestamp) ==
    /\ nobs' = nobs + 1
    /\ \E sorted \in sort_unstable(Append(observations[plate],
                                          Observation(road, mile, timestamp))) :
        /\ observations' = [observations EXCEPT ![plate] = sorted]
        /\ IF Len(sorted) > 1
           THEN IF road \in DOMAIN speed_limits
                THEN LET r == issue_tickets(speed_limits[road], sorted,
                                            tickets_issued[plate], plate, road)
                     IN /\ tickets_issued' = [tickets_issued EXCEPT ![plate] = r.issued]
                        /\ tickets_to_send' = tickets_to_send \o r.pushed
                        /\ enqueued' = enqueued \o r.pushed
                        /\ UNCHANGED poisoned
                ELSE /\ poisoned' = TRUE
                     /\ UNCHANGED <<tickets_issued, tickets_to_send, enqueued>>
           ELSE UNCHANGED <<tickets_issued, tickets_to_send, enqueued, poisoned>>
    /\ UNCHANGED speed_limits

\* Database::get_ticket_to_send: the first pending ticket on one of the roads
\* is removed from the queue and returned; NoTicket stands for None
get_ticket_to_send(roads) ==
    LET p == position(tickets_to_send, roads)
    IN IF p = 0 THEN NoTicket ELSE tickets_to_send[p]

get_ticket_to_send_effect(roads) ==
    LET p == position(tickets_to_send, roads)
    IN tickets_to_send' = IF p = 0 THEN tickets_to_send ELSE remove(tickets_to_send, p)

\* ------------------------------------------------------------------- Init

\* mob-in-the-middle handle(): both buffers empty, nothing forwarded yet
InitProxy ==
    /\ proxy_pc = "select"
    /\ from_client_buf = << >>
    /\ proxy_to_server = << >>
    /\ forwarded = << >>
    /\ proxy_reads = 0

\* Option<String>
None == [some |-> FALSE]
Some(v) == [some |-> TRUE, v |-> v]

\* budget-chat serve(): Server::start() with clients: vec![], no client accepted
InitChat ==
    /\ task = [c \in ChatClients |-> "none"]
    /\ nick = [c \in ChatClients |-> None]
    /\ to_network = [c \in ChatClients |-> << >>]
    /\ to_server = [c \in ChatClients |-> << >>]
    /\ from_server = [c \in ChatClients |-> << >>]
    /\ clients = << >>
    /\ new_clients = << >>
    /\ relay_off = FALSE
    /\ read_ended = [c \in ChatClients |-> FALSE]
    /\ said = [c \in ChatClients |-> << >>]
    /\ nlines = 0

\* serve(): Database::default() behind the mutex, no connection accepted yet
Init ==
    /\ speed_limits = << >>
    /\ observations = [p \in Plates |-> << >>]
    /\ tickets_issued = [p \in Plates |-> << >>]
    /\ tickets_to_send = << >>
    /\ poisoned = FALSE
    /\ mutex = 0
    /\ enqueued = << >>
    /\ nobs = 0
    /\ pc = [c \in Conns |-> "none"]
    /\ client_type = [c \in Conns |-> Unknown]
    /\ holding = [c \in Conns |-> NoTicket]
    /\ sent = [c \in Conns |-> << >>]
    /\ err = [c \in Conns |-> NoError]
    /\ requested_heartbeat = [c \in Conns |-> FALSE]
    /\ heartbeat = [c \in Conns |-> from_secs(DaySecs * 365)]
    /\ beats = [c \in Conns |-> 0]
    /\ inbound = [c \in Conns |-> << >>]
    /\ nread = [c \in Conns |-> 0]
    /\ buf = [c \in Conns |-> << >>]
    /\ applied = [c \in Conns |-> << >>]
    /\ declared_at = [c \in Conns |-> 0]
    /\ InitProxy
    /\ InitChat

\* ----------------------------------------------- SpecDb: the Database alone

DbRecordSpeedLimit(road, limit) ==
    /\ ~poisoned
    /\ record_speed_limit(road, limit)
    /\ UNCHANGED <<observations, tickets_issued, tickets_to_send, poisoned,
                   enqueued, nobs>>
    /\ UNCHANGED connvars
    /\ UNCHANGED <<mutex, proxyvars, chatvars>>

\* callers announce a road's limit before reporting on it (handle, 374 and 392)
DbRecordObservation(plate, road, mile, timestamp) ==
    /\ ~poisoned
    /\ nobs < MaxObs
    /\ road \in DOMAIN speed_limits
    /\ record_observation(plate, road, mile, timestamp)
    /\ UNCHANGED connvars
    /\ UNCHANGED <<mutex, proxyvars, chatvars>>

DbGetTicketToSend(roads) ==
    /\ ~poisoned
    /\ get_ticket_to_send(roads) # NoTicket
    /\ get_ticket_to_send_effect(roads)
    /\ UNCHANGED <<speed_limits, observations, tickets_issued, poisoned,
                   enqueued, nobs>>
    /\ UNCHANGED connvars
    /\ UNCHANGED <<mutex, proxyvars, chatvars>>

DbNext ==
    \/ \E road \in Roads, limit \in Limits : DbRecordSpeedLimit(road, limit)
    \/ \E plate \in Plates, road \in Roads, mile \in DbMiles, timestamp \in DbTimestamps :
          DbRecordObservation(plate, road, mile, timestamp)
    \/ \E roads \in DispatcherRoads : DbGetTicketToSend(roads)

SpecDb == Init /\ [][DbNext]_vars

\* ------------------------------------------ Spec: connections and handlers

\* serve(): listener.accept() and tokio::spawn(handle(..)); connections are
\* numbered in the order they are accepted
Accept(c) ==
    /\ pc[c] = "none"
    /\ \A d \in Conns : d < c => pc[d] # "none"
    /\ pc' = [pc EXCEPT ![c] = "select"]
    /\ UNCHANGED <<dbvars, enqueued, nobs, client_type, holding, sent, err, declared_at,
                   hbvars, rdvars>>
    /\ UNCHANGED <<mutex, proxyvars, chatvars>>

\* write the Error message (its result is discarded) and return
reply_error_keep_open(c, message) ==
    /\ err' = [err EXCEPT ![c] = message]
    /\ UNCHANGED pc
reply_error(c, message) ==
    /\ err' = [err EXCEPT ![c] = message]
    /\ pc' = [pc EXCEPT ![c] = "closed"]

\* database.lock().unwrap() on a poisoned mutex panics the task
lock_panics(c) ==
    /\ pc' = [pc EXCEPT ![c] = "closed"]
    /\ UNCHANGED <<dbvars, enqueued, nobs, client_type, holding, sent, err, hbvars>>

\* the arms of `match packet`; an arm that does not return leaves pc alone, so
\* the parse loop goes on with the rest of buf. What an arm says nothing about
\* (buf and the histories of the read branch) is settled by the action it is in

\* IncomingPacket::IAmCamera
on_IAmCamera_no_limit(c, road, mile, limit) ==
    IF client_type[c] # Unknown
    THEN /\ reply_error(c, "already sent client type")
         /\ UNCHANGED <<dbvars, enqueued, nobs, client_type, holding, sent, hbvars>>
    ELSE /\ client_type' = [client_type EXCEPT ![c] = Camera(road, mile, limit)]
         /\ UNCHANGED <<dbvars, enqueued, nobs, pc, holding, sent, err, hbvars>>
on_IAmCamera(c, road, mile, limit) ==
    IF client_type[c] # Unknown
    THEN /\ reply_error(c, "already sent client type")
         /\ UNCHANGED <<dbvars, enqueued, nobs, client_type, holding, sent, hbvars>>
    ELSE IF poisoned THEN lock_panics(c)
    ELSE /\ record_speed_limit(road, limit)
         /\ client_type' = [client_type EXCEPT ![c] = Camera(road, mile, limit)]
         /\ UNCHANGED <<observations, tickets_issued, tickets_to_send, poisoned,
                        enqueued, nobs, pc, holding, sent, err, hbvars>>

\* IncomingPacket::IAmDispatcher; dispatch_interval is re-armed with a period
\* of one second, and its first tick completes at once
on_IAmDispatcher(c, roads) ==
    IF client_type[c] # Unknown
    THEN /\ reply_error(c, "already sent client type")
         /\ UNCHANGED <<dbvars, enqueued, nobs, client_type, holding, sent, hbvars>>
    ELSE /\ client_type' = [client_type EXCEPT ![c] = Dispatcher(roads)]
         /\ UNCHANGED <<dbvars, enqueued, nobs, pc, holding, sent, err, hbvars>>

\* IncomingPacket::PlateReport
on_PlateReport(c, plate, timestamp) ==
    IF client_type[c].kind = "Camera"
    THEN IF poisoned THEN lock_panics(c)
         ELSE /\ nobs < MaxReports
              /\ record_observation(plate, client_type[c].road,
                                    client_type[c].mile, timestamp)
              /\ UNCHANGED <<pc, client_type, holding, sent, err, hbvars>>
    ELSE /\ reply_error(c, "wrong client type")
         /\ UNCHANGED <<dbvars, enqueued, nobs, client_type, holding, sent, hbvars>>

\* IncomingPacket::WantHeartbeat. interval(period) panics on a zero period
\* ("`period` must be non-zero."), and so does the multiplication in a build
\* with overflow checks; the first tick of the new interval completes at once
on_WantHeartbeat(c, interval) ==
    IF requested_heartbeat[c]
    THEN /\ reply_error(c, "already requested heartbeat")
         /\ UNCHANGED <<dbvars, enqueued, nobs, client_type, holding, sent, hbvars>>
    ELSE /\ requested_heartbeat' = [requested_heartbeat EXCEPT ![c] = TRUE]
         /\ IF interval # 0
            THEN \E m \in u32_mul(interval, 100) :
                    IF m.panic \/ (m.hi = 0 /\ m.lo = 0)
                    THEN /\ pc' = [pc EXCEPT ![c] = "panicked"]
                         /\ UNCHANGED heartbeat
                    ELSE /\ heartbeat' = [heartbeat EXCEPT ![c] = from_millis(m)]
                         /\ UNCHANGED pc
            ELSE UNCHANGED <<pc, heartbeat>>
         /\ UNCHANGED <<dbvars, enqueued, nobs, client_type, holding, sent, err, beats>>

\* read branch when one read brings exactly one IAmCamera message
RecvIAmCamera_record_first(c, road, mile, limit) ==
    /\ pc[c] = "select"
    /\ IF poisoned THEN lock_panics(c)
       ELSE /\ record_speed_limit(road, limit)
            /\ IF client_type[c] # Unknown
               THEN /\ reply_error(c, "already sent client type")
                    /\ UNCHANGED client_type
               ELSE /\ client_type' = [client_type EXCEPT ![c] = Camera(road, mile, limit)]
                    /\ UNCHANGED <<pc, err>>
            /\ UNCHANGED <<observations, tickets_issued, tickets_to_send, poisoned,
                           enqueued, nobs, holding, sent, hbvars>>
    /\ UNCHANGED <<rdvars, declared_at>>
    /\ UNCHANGED <<mutex, proxyvars, chatvars>>
RecvIAmCamera(c, road, mile, limit) ==
    /\ pc[c] = "select"
    /\ on_IAmCamera(c, road, mile, limit)
    /\ UNCHANGED <<rdvars, declared_at>>
    /\ UNCHANGED <<mutex, proxyvars, chatvars>>

\* read branch when one read brings exactly one IAmDispatcher message
RecvIAmDispatcher_overwrite(c, roads) ==
    /\ pc[c] = "select"
    /\ client_type' = [client_type EXCEPT ![c] = Dispatcher(roads)]
    /\ UNCHANGED <<dbvars, enqueued, nobs, pc, holding, sent, err, declared_at,
                   hbvars, rdvars>>
    /\ UNCHANGED <<mutex, proxyvars, chatvars>>
RecvIAmDispatcher(c, roads) ==
    /\ pc[c] = "select"
    /\ on_IAmDispatcher(c, roads)
    /\ UNCHANGED <<rdvars, declared_at>>
    /\ UNCHANGED <<mutex, proxyvars, chatvars>>

\* read branch when one read brings exactly one Plate message
RecvPlate_any_role(c, plate, timestamp) ==
    /\ pc[c] = "select"
    /\ IF poisoned THEN lock_panics(c)
       ELSE /\ nobs < MaxReports
            /\ IF client_type[c].kind = "Camera"
               THEN record_observation(plate, client_type[c].road,
                                       client_type[c].mile, timestamp)
               ELSE record_observation(plate, 1, 0, timestamp)
            /\ UNCHANGED <<pc, client_type, holding, sent, err, hbvars>>
    /\ UNCHANGED <<rdvars, declared_at>>
    /\ UNCHANGED <<mutex, proxyvars, chatvars>>
RecvPlate(c, plate, timestamp) ==
    /\ pc[c] = "select"
    /\ on_PlateReport(c, plate, timestamp)
    /\ UNCHANGED <<rdvars, declared_at>>
    /\ UNCHANGED <<mutex, proxyvars, chatvars>>

\* read branch, read_buf returned Ok(0) or Err: "lost connection"
ReadClosed(c) ==
    /\ pc[c] = "select"
    /\ pc' = [pc EXCEPT ![c] = "closed"]
    /\ UNCHANGED <<dbvars, enqueued, nobs, client_type, holding, sent, err, declared_at,
                   hbvars, rdvars>>
    /\ UNCHANGED <<mutex, proxyvars, chatvars>>

\* one evaluation of the `while let Some(t) = { lock; get_ticket_to_send }`
\* condition: a ticket taken is about to be written, None ends the loop
dispatch_get(c) ==
    /\ IF poisoned THEN lock_panics(c)
       ELSE LET t == get_ticket_to_send(client_type[c].roads)
            IN /\ get_ticket_to_send_effect(client_type[c].roads)
               /\ holding' = [holding EXCEPT ![c] = t]
               /\ pc' = [pc EXCEPT ![c] = IF t = NoTicket THEN "select" ELSE "write"]
               /\ UNCHANGED <<speed_limits, observations, tickets_issued, poisoned,
                              enqueued, nobs, client_type, sent, err, hbvars>>
    /\ UNCHANGED <<rdvars, declared_at>>

\* dispatch_interval.tick() branch: only a Dispatcher enters the loop
DispatchTick(c) ==
    /\ pc[c] = "select"
    /\ IF client_type[c].kind = "Dispatcher" THEN dispatch_get(c)
       ELSE UNCHANGED vars
    /\ UNCHANGED <<mutex, proxyvars, chatvars>>

\* stream.write_all(&t.to_msg()) returned Ok: the loop asks for the next ticket
WriteTicketOk(c) ==
    /\ pc[c] = "write"
    /\ sent' = [sent EXCEPT ![c] = Append(@, holding[c])]
    /\ holding' = [holding EXCEPT ![c] = NoTicket]
    /\ pc' = [pc EXCEPT ![c] = "drain"]
    /\ UNCHANGED <<dbvars, enqueued, nobs, client_type, err, declared_at, hbvars, rdvars>>
    /\ UNCHANGED <<mutex, proxyvars, chatvars>>

\* stream.write_all(&t.to_msg()) returned Err: "write ticket failed", return
WriteTicketErr(c) ==
    /\ pc[c] = "write"
    /\ holding' = [holding EXCEPT ![c] = NoTicket]
    /\ pc' = [pc EXCEPT ![c] = "closed"]
    /\ UNCHANGED <<dbvars, enqueued, nobs, client_type, sent, err, declared_at,
                   hbvars, rdvars>>
    /\ UNCHANGED <<mutex, proxyvars, chatvars>>

\* the next evaluation of the loop condition after a successful write
DispatchNext(c) ==
    /\ pc[c] = "drain"
    /\ dispatch_get(c)
    /\ UNCHANGED <<mutex, proxyvars, chatvars>>

Next ==
    \/ \E c \in SpecConns : Accept(c)
    \/ \E c \in SpecConns, road \in CamRoads, mile \in CamMiles, limit \in Limits :
          RecvIAmCamera(c, road, mile, limit)
    \/ \E c \in SpecConns, roads \in CamDispatcherRoads : RecvIAmDispatcher(c, roads)
    \/ \E c \in SpecConns, plate \in Plates, timestamp \in CamTimestamps :
          RecvPlate(c, plate, timestamp)
    \/ \E c \in SpecConns : ReadClosed(c)
    \/ \E c \in SpecConns : DispatchTick(c)
    \/ \E c \in SpecConns : DispatchNext(c)
    \/ \E c \in SpecConns : WriteTicketOk(c)
    \/ \E c \in SpecConns : WriteTicketErr(c)

Spec == Init /\ [][Next]_vars

\* --------------- SpecPump: the dispatch pump against a Database fed by others

\* a record_observation call made by the task of some camera connection
PumpRecordObservation(o) ==
    /\ ~poisoned
    /\ nobs < MaxObs
    /\ o[2] \in DOMAIN speed_limits
    /\ record_observation(o[1], o[2], o[3], o[4])
    /\ UNCHANGED connvars
    /\ UNCHANGED <<mutex, proxyvars, chatvars>>

PumpNext ==
    \/ \E road \in Roads, limit \in Limits : DbRecordSpeedLimit(road, limit)
    \/ \E o \in PumpObs : PumpRecordObservation(o)
    \/ \E c \in PumpConns : Accept(c)
    \/ \E c \in PumpConns, road \in CamRoads, mile \in PumpCamMiles, limit \in Limits :
          RecvIAmCamera(c, road, mile, limit)
    \/ \E c \in PumpConns, roads \in DispatcherRoads : RecvIAmDispatcher(c, roads)
    \/ \E c \in PumpConns : ReadClosed(c)
    \/ \E c \in PumpConns : DispatchTick(c)
    \/ \E c \in PumpConns : DispatchNext(c)
    \/ \E c \in PumpConns : WriteTicketOk(c)
    \/ \E c \in PumpConns : WriteTicketErr(c)

SpecPump == Init /\ [][PumpNext]_vars

\* ------- SpecLate: dispatchers that declare themselves before or after a push

\* a record_observation call made by the task of some camera connection
LateRecordObservation(o) ==
    /\ ~poisoned
    /\ nobs < MaxReports
    /\ o[2] \in DOMAIN speed_limits
    /\ record_observation(o[1], o[2], o[3], o[4])
    /\ UNCHANGED connvars
    /\ UNCHANGED <<mutex, proxyvars, chatvars>>

\* read branch when one read brings exactly one IAmDispatcher message; the
\* history notes how many tickets had been pushed when the role was taken
DeclareDispatcher(c, roads) ==
    /\ pc[c] = "select"
    /\ on_IAmDispatcher(c, roads)
    /\ declared_at' = [declared_at EXCEPT
                          ![c] = IF client_type[c] = Unknown THEN Len(enqueued) ELSE @]
    /\ UNCHANGED rdvars
    /\ UNCHANGED <<mutex, proxyvars, chatvars>>

LateNext ==
    \/ \E road \in Roads, limit \in Limits : DbRecordSpeedLimit(road, limit)
    \/ \E o \in PumpObs : LateRecordObservation(o)
    \/ \E c \in PumpConns : Accept(c)
    \/ \E c \in PumpConns, roads \in DispatcherRoads : DeclareDispatcher(c, roads)
    \/ \E c \in PumpConns : ReadClosed(c)
    \/ \E c \in PumpConns : DispatchTick(c)
    \/ \E c \in PumpConns : DispatchNext(c)
    \/ \E c \in PumpConns : WriteTicketOk(c)
    \/ \E c \in PumpConns : WriteTicketErr(c)

SpecLate == Init /\ [][LateNext]_vars

\* ------------------------- SpecCam: camera connections on different roads

CamNext ==
    \/ \E c \in PumpConns : Accept(c)
    \/ \E c \in PumpConns, road \in Roads, mile \in CamMiles, limit \in Limits :
          RecvIAmCamera(c, road, mile, limit)
    \/ \E c \in PumpConns, plate \in Plates, timestamp \in CamTimestamps :
          RecvPlate(c, plate, timestamp)
    \/ \E c \in PumpConns : ReadClosed(c)

SpecCam == Init /\ [][CamNext]_vars

\* ------ SpecWire: one connection, from the bytes on its socket to the arms

Range(s) == {s[i] : i \in 1..Len(s)}

RECURSIVE flatten(_)
flatten(frames) ==
    IF Len(frames) = 0 THEN << >>
    ELSE flatten(SubSeq(frames, 1, Len(frames) - 1)) \o frames[Len(frames)]

\* the Database after a camera of road 1 (limit 60) has declared itself and
\* reported WireFirstObs; the connection followed is not accepted yet
InitWire ==
    /\ speed_limits = [r \in {WireFirstObs[2]} |-> 60]
    /\ observations = [p \in Plates |->
                          IF p = WireFirstObs[1]
                          THEN <<Observation(WireFirstObs[2], WireFirstObs[3], WireFirstObs[4])>>
                          ELSE << >>]
    /\ tickets_issued = [p \in Plates |-> << >>]
    /\ tickets_to_send = << >>
    /\ poisoned = FALSE
    /\ mutex = 0
    /\ enqueued = << >>
    /\ nobs = 0
    /\ pc = [c \in Conns |-> "none"]
    /\ client_type = [c \in Conns |-> Unknown]
    /\ holding = [c \in Conns |-> NoTicket]
    /\ sent = [c \in Conns |-> << >>]
    /\ err = [c \in Conns |-> NoError]
    /\ requested_heartbeat = [c \in Conns |-> FALSE]
    /\ heartbeat = [c \in Conns |-> from_secs(DaySecs * 365)]
    /\ beats = [c \in Conns |-> 0]
    /\ inbound = [c \in Conns |-> << >>]
    /\ nread = [c \in Conns |-> 0]
    /\ buf = [c \in Conns |-> << >>]
    /\ applied = [c \in Conns |-> << >>]
    /\ declared_at = [c \in Conns |-> 0]
    /\ InitProxy
    /\ InitChat

\* a record_observation call made by the task of another camera connection;
\* each report of WireObs is made once
WireRecordObservation(o) ==
    /\ ~poisoned
    /\ o[2] \in DOMAIN speed_limits
    /\ ~contains(observations[o[1]], Observation(o[2], o[3], o[4]))
    /\ record_observation(o[1], o[2], o[3], o[4])
    /\ UNCHANGED connvars
    /\ UNCHANGED <<mutex, proxyvars, chatvars>>

\* every byte the peer has written, and those of them read_buf has returned
stream(c) == flatten(inbound[c])
wire(c) == SubSeq(stream(c), 1, nread[c])

\* the peer writes a message, or a byte that starts none, to the socket
PeerSend(c, frame) ==
    /\ pc[c] \notin {"none", "closed", "panicked"}
    /\ Len(inbound[c]) < MaxFrames
    /\ inbound' = [inbound EXCEPT ![c] = Append(@, frame)]
    /\ UNCHANGED <<dbvars, enqueued, nobs, pc, client_type, holding, sent, err,
                   declared_at, hbvars, nread, buf, applied>>
    /\ UNCHANGED <<mutex, proxyvars, chatvars>>

\* read branch: read_buf appends n > 0 of the unread bytes to buf, and the
\* parse loop starts
ReadChunk(c, n) ==
    /\ pc[c] = "select"
    /\ n \in 1..(Len(stream(c)) - nread[c])
    /\ buf' = [buf EXCEPT ![c] = @ \o SubSeq(stream(c), nread[c] + 1, nread[c] + n)]
    /\ nread' = [nread EXCEPT ![c] = @ + n]
    /\ pc' = [pc EXCEPT ![c] = "parse"]
    /\ UNCHANGED <<dbvars, enqueued, nobs, client_type, holding, sent, err,
                   declared_at, hbvars, inbound, applied>>
    /\ UNCHANGED <<mutex, proxyvars, chatvars>>

\* match packet { .. }
match_packet(c, packet) ==
    CASE packet.type = "WantHeartbeat" -> on_WantHeartbeat(c, packet.interval)
      [] packet.type = "IAmCamera" ->
            on_IAmCamera(c, packet.road, packet.mile, packet.limit)
      [] packet.type = "IAmDispatcher" -> on_IAmDispatcher(c, Range(packet.roads))
      [] packet.type = "PlateReport" -> on_PlateReport(c, packet.plate, packet.timestamp)

\* one turn of the parse loop: a packet is cut off buf and matched, Incomplete
\* breaks out to select with buf as it is, an Error is answered and returns
ParseStep(c) ==
    /\ pc[c] = "parse"
    /\ LET r == parse_incoming(buf[c])
       IN IF r.status = "Ok"
          THEN /\ buf' = [buf EXCEPT ![c] = r.rest]
               /\ applied' = [applied EXCEPT ![c] = Append(@, r.value)]
               /\ match_packet(c, r.value)
               /\ UNCHANGED <<inbound, nread, declared_at>>
          ELSE IF r.status = "Incomplete"
          THEN /\ pc' = [pc EXCEPT ![c] = "select"]
               /\ UNCHANGED <<dbvars, enqueued, nobs, client_type, holding, sent, err,
                              declared_at, hbvars, rdvars>>
          ELSE /\ reply_error(c, "invalid input")
               /\ UNCHANGED <<dbvars, enqueued, nobs, client_type, holding, sent,
                              declared_at, hbvars, rdvars>>
    /\ UNCHANGED <<mutex, proxyvars, chatvars>>

\* heartbeat.tick() branch, the write returning Ok: the interval ticks once
\* per period, whatever the period is, and the message is written when
\* requested_heartbeat is set
HeartbeatTick(c) ==
    /\ pc[c] = "select"
    /\ IF requested_heartbeat[c]
       THEN /\ beats[c] < MaxBeats
            /\ beats' = [beats EXCEPT ![c] = @ + 1]
            /\ UNCHANGED <<dbvars, enqueued, nobs, pc, client_type, holding, sent, err,
                           declared_at, requested_heartbeat, heartbeat, rdvars>>
       ELSE UNCHANGED vars
    /\ UNCHANGED <<mutex, proxyvars, chatvars>>

\* heartbeat.tick() branch, the write returning Err: "Heartbeat failed", return
HeartbeatWriteErr(c) ==
    /\ pc[c] = "select"
    /\ requested_heartbeat[c]
    /\ pc' = [pc EXCEPT ![c] = "closed"]
    /\ UNCHANGED <<dbvars, enqueued, nobs, client_type, holding, sent, err,
                   declared_at, hbvars, rdvars>>
    /\ UNCHANGED <<mutex, proxyvars, chatvars>>

WireNext ==
    \/ \E o \in WireObs : WireRecordObservation(o)
    \/ \E c \in WireConns : Accept(c)
    \/ \E c \in WireConns, frame \in WireFrames : PeerSend(c, frame)
    \/ \E c \in WireConns : \E n \in 1..Len(stream(c)) : ReadChunk(c, n)
    \/ \E c \in WireConns : ParseStep(c)
    \/ \E c \in WireConns : ReadClosed(c)
    \/ \E c \in WireConns : HeartbeatTick(c)
    \/ \E c \in WireConns : HeartbeatWriteErr(c)
    \/ \E c \in WireConns : DispatchTick(c)
    \/ \E c \in WireConns : DispatchNext(c)
    \/ \E c \in WireConns : WriteTicketOk(c)
    \/ \E c \in WireConns : WriteTicketErr(c)

SpecWire == InitWire /\ [][WireNext]_vars

\* ------- SpecLock: the Database calls of the handlers, one guard at a time

\* database.lock().unwrap(): the thread waits until no MutexGuard is alive and
\* the task goes on, without an await, inside the statement or block that
\* made the guard; on a poisoned mutex the unwrap panics
lock(c, at) ==
    /\ mutex = 0
    /\ IF poisoned
       THEN /\ lock_panics(c)
            /\ UNCHANGED <<mutex, declared_at, rdvars>>
       ELSE /\ mutex' = c
            /\ pc' = [pc EXCEPT ![c] = at]
            /\ UNCHANGED <<dbvars, enqueued, nobs, client_type, holding, sent, err,
                           declared_at, hbvars, rdvars>>

\* IncomingPacket::IAmCamera up to the lock() of line 374
IAmCameraLock(c) ==
    /\ pc[c] = "select"
    /\ IF client_type[c] # Unknown
       THEN /\ reply_error(c, "already sent client type")
            /\ UNCHANGED <<dbvars, mutex, enqueued, nobs, client_type, holding, sent,
                           declared_at, hbvars, rdvars>>
       ELSE lock(c, "record_speed_limit")
    /\ UNCHANGED <<proxyvars, chatvars>>

\* the rest of the statement of line 374, at whose end the guard is dropped,
\* and the assignment of the role
IAmCameraCall(c, road, mile, limit) ==
    /\ pc[c] = "record_speed_limit"
    /\ mutex = c
    /\ record_speed_limit(road, limit)
    /\ mutex' = 0
    /\ client_type' = [client_type EXCEPT ![c] = Camera(road, mile, limit)]
    /\ pc' = [pc EXCEPT ![c] = "select"]
    /\ UNCHANGED <<observations, tickets_issued, tickets_to_send, poisoned, enqueued,
                   nobs, holding, sent, err, declared_at, hbvars, rdvars>>
    /\ UNCHANGED <<proxyvars, chatvars>>

\* IncomingPacket::PlateReport up to the lock() of line 392
PlateLock(c) ==
    /\ pc[c] = "select"
    /\ IF client_type[c].kind = "Camera"
       THEN /\ nobs < MaxReports
            /\ lock(c, "record_observation")
       ELSE /\ reply_error(c, "wrong client type")
            /\ UNCHANGED <<dbvars, mutex, enqueued, nobs, client_type, holding, sent,
                           declared_at, hbvars, rdvars>>
    /\ UNCHANGED <<proxyvars, chatvars>>

\* the rest of the statement of line 392, at whose end the guard is dropped
PlateCall(c, plate, timestamp) ==
    /\ pc[c] = "record_observation"
    /\ mutex = c
    /\ record_observation(plate, client_type[c].road, client_type[c].mile, timestamp)
    /\ mutex' = 0
    /\ pc' = [pc EXCEPT ![c] = "select"]
    /\ UNCHANGED <<client_type, holding, sent, err, declared_at, hbvars, rdvars>>
    /\ UNCHANGED <<proxyvars, chatvars>>

\* dispatch_interval.tick() on a Dispatcher, or the loop condition after a
\* write: the block of lines 324-328 up to its lock()
DispatchLock(c) ==
    /\ pc[c] \in {"select", "drain"}
    /\ client_type[c].kind = "Dispatcher"
    /\ lock(c, "get_ticket_to_send")
    /\ UNCHANGED <<proxyvars, chatvars>>

\* the rest of the block: `db` is a local of the block and is dropped at its
\* closing brace, before the loop body and its write_all
DispatchCall_guard_in_body(c) ==
    /\ pc[c] = "get_ticket_to_send"
    /\ mutex = c
    /\ LET t == get_ticket_to_send(client_type[c].roads)
       IN /\ get_ticket_to_send_effect(client_type[c].roads)
          /\ holding' = [holding EXCEPT ![c] = t]
          /\ pc' = [pc EXCEPT ![c] = IF t = NoTicket THEN "select" ELSE "write"]
          /\ mutex' = IF t = NoTicket THEN 0 ELSE c
    /\ UNCHANGED <<speed_limits, observations, tickets_issued, poisoned, enqueued,
                   nobs, client_type, sent, err, declared_at, hbvars, rdvars>>
    /\ UNCHANGED <<proxyvars, chatvars>>
DispatchCall(c) ==
    /\ pc[c] = "get_ticket_to_send"
    /\ mutex = c
    /\ LET t == get_ticket_to_send(client_type[c].roads)
       IN /\ get_ticket_to_send_effect(client_type[c].roads)
          /\ holding' = [holding EXCEPT ![c] = t]
          /\ pc' = [pc EXCEPT ![c] = IF t = NoTicket THEN "select" ELSE "write"]
    /\ mutex' = 0
    /\ UNCHANGED <<speed_limits, observations, tickets_issued, poisoned, enqueued,
                   nobs, client_type, sent, err, declared_at, hbvars, rdvars>>
    /\ UNCHANGED <<proxyvars, chatvars>>

\* the holder of the guard ends the statement or block that made it
GuardDropped(c) ==
    \/ \E road \in CamRoads, mile \in CamMiles, limit \in Limits :
          IAmCameraCall(c, road, mile, limit)
    \/ \E plate \in Plates, timestamp \in CamTimestamps : PlateCall(c, plate, timestamp)
    \/ DispatchCall(c)

LockNext ==
    \/ \E c \in PumpConns : Accept(c)
    \/ \E c \in PumpConns : IAmCameraLock(c)
    \/ \E c \in PumpConns, roads \in CamDispatcherRoads : RecvIAmDispatcher(c, roads)
    \/ \E c \in PumpConns : PlateLock(c)
    \/ \E c \in PumpConns : DispatchLock(c)
    \/ \E c \in PumpConns : GuardDropped(c)
    \/ \E c \in PumpConns : ReadClosed(c)
    \/ \E c \in PumpConns : WriteTicketOk(c)
    \/ \E c \in PumpConns : WriteTicketErr(c)

SpecLock == InitWire /\ [][LockNext]_vars

\* ----------- SpecProxy: Mob in the Middle, the lines of one proxied client

\* n bytes b
rep(n, b) == [i \in 1..n |-> b]

\* bytes: LF, space, '-', '7', '_', 'a', 'x'
LF == 10
SP == 32
\* what one read of the client socket may bring
ProxyFragments == {
    <<55>> \o rep(25, 97),          \* '7' and 25 letters: the shortest address
    <<55>> \o rep(34, 97),          \* '7' and 34 letters: the longest address
    <<55>> \o rep(24, 97),          \* one letter short
    <<55>> \o rep(35, 97),          \* one letter long
    <<55, 95>> \o rep(24, 97),      \* '7', '_' and 24 letters
    <<120>>,                        \* "x"
    <<SP>>,
    <<45>>,                         \* "-"
    <<LF>> }

\* the address written in place of a Boguscoin address, "7YWHMfk9JZe0LM0g1ZauHuiSxhI"
TOTE == <<55, 89, 87, 72, 77, 102, 107, 57, 74, 90, 101, 48, 76, 77, 48, 103,
          49, 90, 97, 117, 72, 117, 105, 83, 120, 104, 73>>

is_ascii_alphanumeric(b) ==
    \/ b \in 48..57
    \/ b \in 65..90
    \/ b \in 97..122

\* the class \w of the pattern, on ASCII bytes: letters, digits and '_'
is_word_byte(b) == is_ascii_alphanumeric(b) \/ b = 95

\* \b between byte k and byte k + 1 of the line (k = 0 and k = Len(line) are
\* its edges): exactly one of the two sides is a \w byte
word_boundary(line, k) ==
    (k >= 1 /\ is_word_byte(line[k])) # (k < Len(line) /\ is_word_byte(line[k + 1]))

\* the last byte of the match of \b7\w{25,34}\b that starts at byte s, 0 when
\* there is none; the repetition is greedy, so the longest tail is taken
match_end(line, s) ==
    IF line[s] # 55 \/ ~word_boundary(line, s - 1) THEN 0
    ELSE LET tails == {n \in 25..34 :
                          /\ s + n <= Len(line)
                          /\ \A i \in (s + 1)..(s + n) : is_word_byte(line[i])
                          /\ word_boundary(line, s + n)}
         IN IF tails = {} THEN 0
            ELSE s + CHOOSE n \in tails : \A m \in tails : m <= n

\* captures_iter: the start of the leftmost match at or after byte `from`, 0
\* when there is none
next_match(line, from) ==
    LET starts == {s \in from..Len(line) : match_end(line, s) # 0}
    IN IF starts = {} THEN 0 ELSE CHOOSE s \in starts : \A t \in starts : s <= t

\* the loop over the matches from last_match (bytes before it are done) on,
\* and the rest of the line and the LF behind the last match
RECURSIVE transform_from(_, _, _)
transform_from(line, last_match, replaced) ==
    LET start == next_match(line, last_match + 1)
    IN IF start = 0
       THEN replaced \o SubSeq(line, last_match + 1, Len(line)) \o <<LF>>
       ELSE LET end == match_end(line, start)
                before == SubSeq(line, last_match + 1, start - 1)
                bounded == /\ (start = 1 \/ line[start - 1] = SP)
                           /\ (end = Len(line) \/ line[end + 1] = SP)
            IN transform_from(line, end,
                   replaced \o before \o
                      (IF bounded THEN TOTE ELSE SubSeq(line, start, end)))

transform_line(line) == transform_from(line, 0, << >>)

\* next_line: the bytes before the first LF of b, and b without them and the
\* LF; [found |-> FALSE] stands for None
next_line(b) ==
    IF \E i \in 1..Len(b) : b[i] = LF
    THEN LET newline == CHOOSE i \in 1..Len(b) :
                            b[i] = LF /\ \A j \in 1..(i - 1) : b[j] # LF
         IN [found |-> TRUE, line |-> SubSeq(b, 1, newline - 1),
             rest |-> SubSeq(b, newline + 1, Len(b))]
    ELSE [found |-> FALSE]

\* `while let Some(line) = next_line(&mut buf)`: every whole line of b is
\* transformed and written, in order
RECURSIVE forward_lines(_, _)
forward_lines(b, done) ==
    LET n == next_line(b)
    IN IF n.found
       THEN forward_lines(n.rest, Append(done, <<n.line, transform_line(n.line)>>))
       ELSE [rest |-> b, done |-> done]

\* from_client.read_buf returned Ok(count) with count > 0
ProxyRead(fragment) ==
    /\ proxy_pc = "select"
    /\ proxy_reads < MaxFragments
    /\ proxy_reads' = proxy_reads + 1
    /\ LET r == forward_lines(from_client_buf \o fragment, << >>)
       IN /\ from_client_buf' = r.rest
          /\ forwarded' = forwarded \o r.done
          /\ proxy_to_server' = proxy_to_server \o flatten([i \in 1..Len(r.done) |-> r.done[i][2]])
    /\ UNCHANGED proxy_pc
    /\ UNCHANGED <<daemonvars, chatvars>>

\* read_buf returned Ok(0) or Err on either socket: "lost client connection"
ProxyLost ==
    /\ proxy_pc = "select"
    /\ proxy_pc' = "closed"
    /\ UNCHANGED <<from_client_buf, proxy_to_server, forwarded, proxy_reads>>
    /\ UNCHANGED <<daemonvars, chatvars>>

ProxyNext ==
    \/ \E fragment \in ProxyFragments : ProxyRead(fragment)
    \/ ProxyLost

SpecProxy == Init /\ [][ProxyNext]_vars

\* ----------------- SpecChat: Budget Chat, the Server task and the clients

\* the lines the peers may send: "", "a", "b", "!"
ChatLines == { << >>, <<97>>, <<98>>, <<33>> }
\* the lines the peer of each client sends: the first one names itself "a" or
\* sends empty lines, the second one names itself "b", the third one sends
\* "!", which is no nick, and the others name themselves "a" as well
LinesOf(c) ==
    IF c = 1 THEN { << >>, <<97>> }
    ELSE IF c = 2 THEN { <<98>> }
    ELSE IF c = 3 THEN { <<33>> }
    ELSE { <<97>> }

\* MessageType and ClientMessage
Joined(n) == [type |-> "Joined", nick |-> n, msg |-> << >>]
Message(n, l) == [type |-> "Message", nick |-> n, msg |-> l]
Left(n) == [type |-> "Left", nick |-> n, msg |-> << >>]
ClientMessage(client_id, m) == [from_client_id |-> client_id, message |-> m]

\* Client::set_nick on a client without a nick: Ok(()) when every char of the
\* line is ASCII alphanumeric, which `all` also says of a line without chars
set_nick_ok(l) == \A i \in 1..Len(l) : is_ascii_alphanumeric(l[i])

\* what a client writes for a message of another client (lines 120-127); the
\* sender's id is kept beside the text
format(m) ==
    [fmt |-> IF m.message.type = "Joined" THEN "* {} has joined"
             ELSE IF m.message.type = "Message" THEN "[{}] {}"
             ELSE "* {} has left",
     nick |-> m.message.nick, msg |-> m.message.msg, from |-> m.from_client_id]

\* serve(): accept, Client::start (the spawned task writes the prompt) and the
\* handle sent to the Server; client ids follow the order of accepts
ChatAccept(c) ==
    /\ task[c] = "none"
    /\ \A d \in ChatClients : d < c => task[d] # "none"
    /\ task' = [task EXCEPT ![c] = "running"]
    /\ to_network' = [to_network EXCEPT ![c] = <<[fmt |-> "hi what your nick"]>>]
    /\ new_clients' = Append(new_clients, c)
    /\ UNCHANGED <<nick, to_server, from_server, clients, relay_off, read_ended,
                   said, nlines>>
    /\ UNCHANGED <<daemonvars, proxyvars>>

\* Server::run, new_clients.recv() returned a handle: it is pushed and the
\* loop builds its futures and its select anew
ServerNewClient ==
    /\ new_clients # << >>
    /\ clients' = Append(clients, Head(new_clients))
    /\ new_clients' = Tail(new_clients)
    /\ relay_off' = FALSE
    /\ UNCHANGED <<task, nick, to_network, to_server, from_server, read_ended,
                   said, nlines>>
    /\ UNCHANGED <<daemonvars, proxyvars>>

\* Server::run, client_receives.next() returned Some(Some(message)) from the
\* channel of c: the message is sent to every client of the Vec, the sender
\* included; a send to a client whose task has ended fails and is ignored
ServerRelay(c) ==
    /\ ~relay_off
    /\ c \in Range(clients)
    /\ to_server[c] # << >>
    /\ to_server' = [to_server EXCEPT ![c] = Tail(@)]
    /\ from_server' = [d \in ChatClients |->
                          IF d \in Range(clients) /\ task[d] = "running"
                          THEN Append(from_server[d], Head(to_server[c]))
                          ELSE from_server[d]]
    /\ UNCHANGED <<task, nick, to_network, clients, new_clients, relay_off,
                   read_ended, said, nlines>>
    /\ UNCHANGED <<daemonvars, proxyvars>>

\* Server::run, client_receives.next() returned Some(None): the channel of c
\* is closed (its task has ended) and empty. The pattern Some(Some(message))
\* does not match, select! disables the branch and waits on new_clients alone
ServerRelayOff(c) ==
    /\ ~relay_off
    /\ c \in Range(clients)
    /\ task[c] = "ended"
    /\ to_server[c] = << >>
    /\ relay_off' = TRUE
    /\ UNCHANGED <<task, nick, to_network, to_server, from_server, clients,
                   new_clients, read_ended, said, nlines>>
    /\ UNCHANGED <<daemonvars, proxyvars>>

\* Client::run, next_line() returned Ok(Some(l))
ClientLine(c, l) ==
    /\ task[c] = "running"
    /\ ~read_ended[c]
    /\ nlines < MaxLines
    /\ nlines' = nlines + 1
    /\ IF nick[c].some
       THEN /\ to_server' = [to_server EXCEPT
                                ![c] = Append(@, ClientMessage(c, Message(nick[c].v, l)))]
            /\ said' = [said EXCEPT ![c] = Append(@, l)]
            /\ UNCHANGED <<task, nick, to_network, from_server>>
       ELSE IF set_nick_ok(l)
       THEN /\ nick' = [nick EXCEPT ![c] = Some(l)]
            /\ to_server' = [to_server EXCEPT ![c] = Append(@, ClientMessage(c, Joined(l)))]
            /\ UNCHANGED <<task, to_network, from_server, said>>
       ELSE /\ to_network' = [to_network EXCEPT ![c] = Append(@, [fmt |-> ":x"])]
            /\ task' = [task EXCEPT ![c] = "ended"]
            /\ from_server' = [from_server EXCEPT ![c] = << >>]
            /\ UNCHANGED <<nick, to_server, said>>
    /\ UNCHANGED <<clients, new_clients, relay_off, read_ended>>
    /\ UNCHANGED <<daemonvars, proxyvars>>

\* Client::run, next_line() returned Ok(None) or Err: `if let Ok(Some(l))`
\* does not match and the arm does nothing; the loop goes on
ClientReadEnd(c) ==
    /\ task[c] = "running"
    /\ ~read_ended[c]
    /\ read_ended' = [read_ended EXCEPT ![c] = TRUE]
    /\ UNCHANGED <<task, nick, to_network, to_server, from_server, clients,
                   new_clients, relay_off, said, nlines>>
    /\ UNCHANGED <<daemonvars, proxyvars>>

\* Client::run, from_server.recv() returned a message: one of another client
\* is written when this client has a nick, and the write returned Ok
ClientRecv(c) ==
    /\ task[c] = "running"
    /\ from_server[c] # << >>
    /\ from_server' = [from_server EXCEPT ![c] = Tail(@)]
    /\ to_network' = [to_network EXCEPT
                         ![c] = IF Head(from_server[c]).from_client_id # c /\ nick[c].some
                                THEN Append(@, format(Head(from_server[c])))
                                ELSE @]
    /\ UNCHANGED <<task, nick, to_server, clients, new_clients, relay_off,
                   read_ended, said, nlines>>
    /\ UNCHANGED <<daemonvars, proxyvars>>

\* the same with the write to a peer that is gone returning Err: "write
\* failed", the loop ends and a client with a nick sends Left
ClientRecvWriteErr(c) ==
    /\ task[c] = "running"
    /\ read_ended[c]
    /\ from_server[c] # << >>
    /\ Head(from_server[c]).from_client_id # c
    /\ nick[c].some
    /\ task' = [task EXCEPT ![c] = "ended"]
    /\ from_server' = [from_server EXCEPT ![c] = << >>]
    /\ to_server' = [to_server EXCEPT ![c] = Append(@, ClientMessage(c, Left(nick[c].v)))]
    /\ UNCHANGED <<nick, to_network, clients, new_clients, relay_off, read_ended,
                   said, nlines>>
    /\ UNCHANGED <<daemonvars, proxyvars>>

ServerStep ==
    \/ ServerNewClient
    \/ \E c \in ChatClients : ServerRelay(c)
    \/ \E c \in ChatClients : ServerRelayOff(c)

ChatNext ==
    \/ \E c \in ChatClients : ChatAccept(c)
    \/ ServerStep
    \/ \E c \in ChatClients : \E l \in LinesOf(c) : ClientLine(c, l)
    \/ \E c \in ChatClients : ClientReadEnd(c)
    \/ \E c \in ChatClients : ClientRecv(c)
    \/ \E c \in ChatClients : ClientRecvWriteErr(c)

SpecChat == Init /\ [][ChatNext]_vars

\* the Server task and the client tasks are spawned on the runtime, which
\* polls a task that is ready: a step of the Server, and the receipt of a
\* queued message by a client, are not put off for ever
SpecChatFair ==
    /\ Init
    /\ [][ChatNext]_vars
    /\ WF_vars(ServerStep)
    /\ \A c \in ChatClients : WF_vars(ClientRecv(c) \/ ClientRecvWriteErr(c))

\* ------------------------------------------------------------ properties

\* the day span of a ticket
day1_of(t) == day_of(t.timestamp1)
day2_of(t) == day_of(t.timestamp2)

\* the tickets ever issued for a plate, as positions of the history
tickets_of(plate) == {i \in 1..Len(enqueued) : enqueued[i].plate = plate}

\* position of a ticket in the order of enqueueing
enq_index(t) == CHOOSE i \in 1..Len(enqueued) : enqueued[i] = t

\* adjacent over-limit pairs, with distinct timestamps, of a plate on a road
over_pairs(plate, road) ==
    LET f == filter_road(observations[plate], road)
    IN {i \in 1..(Len(f) - 1) :
            /\ road \in DOMAIN speed_limits
            /\ f[i].timestamp < f[i + 1].timestamp
            /\ over_limit(f[i], f[i + 1], speed_limits[road])}

\* C1: after any sequence of record_observation calls, every plate's stored
\* observation list is sorted in non-decreasing timestamp order.
C1_ObservationsSorted ==
    \A plate \in Plates : IsSorted(observations[plate])

\* a plate with three or more observations, on both roads, with a tie and
\* with distinct timestamps
C1_Witness ==
    \E plate \in Plates :
        LET obs == observations[plate]
        IN /\ Len(obs) >= 3
           /\ obs[1].timestamp < obs[Len(obs)].timestamp
           /\ \E i \in 1..(Len(obs) - 1) : obs[i].timestamp = obs[i + 1].timestamp
           /\ \E i, j \in 1..Len(obs) : obs[i].road # obs[j].road

\* C2 (as claimed): observations with identical timestamps never generate a
\* ticket, so every ticket ever enqueued has timestamp1 < timestamp2.
C2_TicketTimestampsIncrease ==
    \A i \in 1..Len(enqueued) : enqueued[i].timestamp1 < enqueued[i].timestamp2

\* C3 (as claimed): for any plate and any day d, at most one ticket ever issued
\* for the plate has a span day1..day2 that touches d, i.e. the spans of two
\* tickets of one plate never overlap. Read over the tickets whose timestamps
\* increase, so that a refutation does not rest on the tickets of C2.
C3_OneTicketTouchingEachDay ==
    \A plate \in Plates :
        \A i, j \in tickets_of(plate) :
            ( /\ i # j
              /\ enqueued[i].timestamp1 < enqueued[i].timestamp2
              /\ enqueued[j].timestamp1 < enqueued[j].timestamp2 )
            => \/ day2_of(enqueued[i]) < day1_of(enqueued[j])
               \/ day2_of(enqueued[j]) < day1_of(enqueued[i])

\* C4: for any plate, no two tickets ever issued for it (on any road) share a
\* start day or an end day.
C4_StartEndDaysDistinct ==
    \A plate \in Plates :
        \A i, j \in tickets_of(plate) :
            i # j => {day1_of(enqueued[i]), day2_of(enqueued[i])}
                        \cap {day1_of(enqueued[j]), day2_of(enqueued[j])} = {}

\* two over-limit pairs of one plate lie on the same day and exactly one
\* ticket was issued for that day
C4_Witness ==
    \E plate \in Plates, r1, r2 \in Roads :
        \E i1 \in over_pairs(plate, r1), i2 \in over_pairs(plate, r2) :
            LET f1 == filter_road(observations[plate], r1)
                f2 == filter_road(observations[plate], r2)
                d == day_of(f1[i1].timestamp)
            IN /\ <<r1, i1>> # <<r2, i2>>
               /\ day_of(f1[i1 + 1].timestamp) = d
               /\ day_of(f2[i2].timestamp) = d
               /\ day_of(f2[i2 + 1].timestamp) = d
               /\ Cardinality({k \in tickets_of(plate) :
                                  day1_of(enqueued[k]) = d \/ day2_of(enqueued[k]) = d}) = 1

\* the tickets a connection was given: those written and the one in flight
received(c) ==
    IF holding[c] = NoTicket THEN sent[c] ELSE Append(sent[c], holding[c])

\* C5: each ticket of the pending queue is written to at most one dispatcher
\* connection and at most once on it, whatever the interleaving of dispatchers
\* with overlapping road sets; a ticket taken by one connection is no longer
\* in the queue for another.
C5_WrittenAtMostOnce ==
    /\ \A c1, c2 \in Conns :
         \A i \in 1..Len(received(c1)), j \in 1..Len(received(c2)) :
            received(c1)[i] = received(c2)[j] => (c1 = c2 /\ i = j)
    /\ \A c \in Conns :
         \A i \in 1..Len(received(c)) :
            ~contains(tickets_to_send, received(c)[i])

\* two dispatchers with overlapping road sets have each written a ticket, and
\* the ticket written by the first is on a road of the second too
C5_Witness ==
    \E c1, c2 \in Conns :
        /\ c1 # c2
        /\ client_type[c1].kind = "Dispatcher"
        /\ client_type[c2].kind = "Dispatcher"
        /\ client_type[c1].roads \cap client_type[c2].roads # {}
        /\ sent[c1] # << >>
        /\ sent[c2] # << >>
        /\ sent[c1][1].road \in client_type[c2].roads

\* C6 (as claimed): a ticket leaves the pending queue only by being delivered:
\* every ticket ever enqueued is still pending, is being written by the
\* connection that took it, or has been written to a dispatcher.
C6_NeverRemovedUndelivered ==
    \A i \in 1..Len(enqueued) :
        \/ contains(tickets_to_send, enqueued[i])
        \/ \E c \in Conns : contains(received(c), enqueued[i])

\* C7: a Ticket is written only on a connection whose role is Dispatcher and
\* whose road set contains the ticket's road; a connection in Unknown or
\* Camera role is never given one.
C7_OnlyToCoveringDispatcher ==
    \A c \in Conns :
        \A i \in 1..Len(received(c)) :
            /\ client_type[c].kind = "Dispatcher"
            /\ received(c)[i].road \in client_type[c].roads

\* a dispatcher of road 1 alone has written a ticket while a ticket of another
\* road is pending and a camera connection is open
C7_Witness ==
    \E c, k \in Conns :
        /\ client_type[c] = Dispatcher({1})
        /\ sent[c] # << >>
        /\ \E i \in 1..Len(tickets_to_send) : tickets_to_send[i].road \notin {1}
        /\ client_type[k].kind = "Camera"
        /\ pc[k] = "select"

\* C8: the tickets given to a dispatcher follow the order of enqueueing, and a
\* ticket it is given is older than every pending ticket its road set matches:
\* of two matching tickets it never receives the later-enqueued one first.
C8_DispatchFifo ==
    \A c \in Conns :
        LET r == received(c)
        IN /\ \A i, j \in 1..Len(r) :
                i < j => enq_index(r[i]) < enq_index(r[j])
           /\ client_type[c].kind = "Dispatcher" =>
                \A i \in 1..Len(r), k \in 1..Len(tickets_to_send) :
                    tickets_to_send[k].road \in client_type[c].roads
                        => enq_index(r[i]) < enq_index(tickets_to_send[k])

\* a dispatcher has written two tickets, of different roads, while another
\* dispatcher connection is open
C8_Witness ==
    \E c, k \in Conns :
        /\ c # k
        /\ Len(sent[c]) >= 2
        /\ sent[c][1].road # sent[c][2].road
        /\ client_type[k].kind = "Dispatcher"
        /\ pc[k] # "closed"

\* connection c receives a role declaration (of either kind)
role_declaration(c) ==
    \/ \E road \in CamRoads, mile \in CamMiles, limit \in Limits :
          RecvIAmCamera(c, road, mile, limit)
    \/ \E roads \in CamDispatcherRoads : RecvIAmDispatcher(c, roads)

\* C9: a connection's role is set at most once: once it is not Unknown it
\* never changes, and an IAmCamera or IAmDispatcher received then is answered
\* with the Error "already sent client type" and the connection is closed.
C9_RoleSetOnce ==
    [][\A c \in SpecConns :
         (client_type[c] # Unknown) =>
            /\ client_type'[c] = client_type[c]
            /\ role_declaration(c) =>
                  (err'[c] = "already sent client type" /\ pc'[c] = "closed")]_vars

\* a dispatcher's second role declaration was rejected
C9_Witness ==
    \E c \in SpecConns :
        /\ client_type[c].kind = "Dispatcher"
        /\ err[c] = "already sent client type"
        /\ pc[c] = "closed"

\* C10: a rejected second role declaration leaves the Database (speed limits,
\* observations, issued days, pending tickets) unchanged.
C10_RejectedDeclarationFrame ==
    [][\A c \in SpecConns :
         (client_type[c] # Unknown /\ role_declaration(c))
            => UNCHANGED <<dbvars, enqueued>>]_vars

\* a camera's second role declaration was rejected while observations of its
\* road are stored
C10_Witness ==
    \E c \in SpecConns :
        /\ client_type[c].kind = "Camera"
        /\ err[c] = "already sent client type"
        /\ \E plate \in Plates : observations[plate] # << >>

\* how many times x occurs in the sequence s
occurrences(s, x) == Cardinality({i \in 1..Len(s) : s[i] = x})

\* C11: a Plate received on a connection whose role is Unknown or Dispatcher
\* is answered with the Error "wrong client type", closes the connection and
\* leaves the Database unchanged; the observation lists change only by a Plate
\* received on a Camera connection, which adds one observation carrying that
\* camera's road and mile and the reported timestamp (the unstable sort that
\* follows may reorder observations of equal timestamp, so the lists are
\* compared as multisets).
C11_PlateOnlyFromCamera ==
    [][/\ \A c \in SpecConns, plate \in Plates, timestamp \in CamTimestamps :
            (client_type[c].kind # "Camera" /\ RecvPlate(c, plate, timestamp))
               => /\ err'[c] = "wrong client type"
                  /\ pc'[c] = "closed"
                  /\ UNCHANGED <<dbvars, enqueued, nobs>>
       /\ observations' # observations =>
            \E c \in SpecConns, plate \in Plates, timestamp \in CamTimestamps :
               /\ client_type[c].kind = "Camera"
               /\ pc[c] = "select"
               /\ \A q \in Plates \ {plate} : observations'[q] = observations[q]
               /\ LET new == Observation(client_type[c].road, client_type[c].mile, timestamp)
                  IN /\ Len(observations'[plate]) = Len(observations[plate]) + 1
                     /\ \A o \in Range(observations'[plate]) \cup Range(observations[plate]) :
                           occurrences(observations'[plate], o) =
                              occurrences(observations[plate], o) + (IF o = new THEN 1 ELSE 0)
                     /\ new \in Range(observations'[plate])]_vars

\* a Plate was rejected on a connection of Unknown role and on a Dispatcher
\* connection, and a camera's report is stored
C11_Witness ==
    \E c, d \in SpecConns :
        /\ client_type[c] = Unknown
        /\ err[c] = "wrong client type"
        /\ client_type[d].kind = "Dispatcher"
        /\ err[d] = "wrong client type"
        /\ \E plate \in Plates : observations[plate] # << >>

\* round(100 * 3600 * |mile2 - mile1| / (timestamp2 - timestamp1)) of a ticket
\* whose timestamps increase, in exact arithmetic
measured_speed(t) ==
    LET d == abs_diff(t.mile2, t.mile1)
        dt == t.timestamp2 - t.timestamp1
        q == (d * 360000) \div dt
        r == (d * 360000) % dt
    IN IF 2 * r >= dt THEN q + 1 ELSE q

\* C18 (as claimed): the speed field of every issued ticket equals the
\* measured speed in hundredths of a mile per hour rounded to the nearest
\* integer, also for pairs faster than 655.35 mph. Read over the tickets whose
\* timestamps increase, so that a refutation does not rest on the tickets of C2.
C18_SpeedFieldIsMeasuredSpeed ==
    \A i \in 1..Len(enqueued) :
        enqueued[i].timestamp1 < enqueued[i].timestamp2
            => enqueued[i].speed = measured_speed(enqueued[i])

\* the fields of a ticket other than its speed
ticket_span(t) ==
    [plate |-> t.plate, road |-> t.road, mile1 |-> t.mile1,
     timestamp1 |-> t.timestamp1, mile2 |-> t.mile2, timestamp2 |-> t.timestamp2]

\* C19: when a plate has exactly two observations, on one road, at different
\* miles and different timestamps, with a speed above the limit (beyond the
\* 0.1 mph tolerance), exactly one ticket was enqueued for it; its
\* (mile1, timestamp1) is the earlier and (mile2, timestamp2) the later
\* observation, whichever report reached the Database first; miles 8 and 9 at
\* t=0 and t=45 with limit 60 give speed 8000.
C19_OneTicketEarlierFirst ==
    \A plate \in Plates :
        LET obs == observations[plate]
        IN ( /\ Len(obs) = 2
             /\ obs[1].road = obs[2].road
             /\ obs[1].mile # obs[2].mile
             /\ obs[1].timestamp # obs[2].timestamp
             /\ obs[1].road \in DOMAIN speed_limits )
           => LET o1 == IF obs[1].timestamp < obs[2].timestamp THEN obs[1] ELSE obs[2]
                  o2 == IF obs[1].timestamp < obs[2].timestamp THEN obs[2] ELSE obs[1]
                  d == abs_diff(o2.mile, o1.mile)
                  dt == o2.timestamp - o1.timestamp
                  limit == speed_limits[o1.road]
              IN d * 36000 > (10 * limit + 1) * dt
                 => /\ Cardinality(tickets_of(plate)) = 1
                    /\ \A i \in tickets_of(plate) :
                          /\ ticket_span(enqueued[i]) =
                                [plate |-> plate, road |-> o1.road,
                                 mile1 |-> o1.mile, timestamp1 |-> o1.timestamp,
                                 mile2 |-> o2.mile, timestamp2 |-> o2.timestamp]
                          /\ (d = 1 /\ dt = 45 /\ limit = 60)
                                => enqueued[i].speed = 8000

\* two cameras at miles 8 and 9 of one road reported the plate at t=0 and
\* t=45, and the ticket 8@0 -> 9@45 with speed 8000 was enqueued
C19_Witness ==
    \E c1, c2 \in SpecConns, plate \in Plates :
        /\ client_type[c1].kind = "Camera"
        /\ client_type[c2].kind = "Camera"
        /\ client_type[c1].road = client_type[c2].road
        /\ client_type[c1].mile = 8
        /\ client_type[c2].mile = 9
        /\ Len(observations[plate]) = 2
        /\ Len(enqueued) = 1
        /\ enqueued[1].mile1 = 8
        /\ enqueued[1].timestamp1 = 0
        /\ enqueued[1].mile2 = 9
        /\ enqueued[1].timestamp2 = 45
        /\ enqueued[1].speed = 8000

\* the pending tickets on the roads of connection c
matching(c) ==
    {i \in 1..Len(tickets_to_send) : tickets_to_send[i].road \in client_type[c].roads}

\* C20: a pending ticket stays in the queue while no open connection is a
\* Dispatcher covering its road; a Dispatcher waiting in select with a ticket
\* of its roads pending can take its dispatch tick with no input from the peer
\* (the first tick after its declaration included), and that tick takes a
\* pending ticket of its roads to write it.
C20_QueuedTicketReachesLateDispatcher ==
    /\ [](\A c \in PumpConns :
            (pc[c] = "select" /\ client_type[c].kind = "Dispatcher" /\ matching(c) # {})
               => ENABLED <<DispatchTick(c)>>_vars)
    /\ [][/\ \A i \in 1..Len(tickets_to_send) :
              (~\E c \in PumpConns :
                   /\ pc[c] \notin {"none", "closed"}
                   /\ client_type[c].kind = "Dispatcher"
                   /\ tickets_to_send[i].road \in client_type[c].roads)
                 => contains(tickets_to_send', tickets_to_send[i])
         /\ \A c \in PumpConns :
              (client_type[c].kind = "Dispatcher" /\ (DispatchTick(c) \/ DispatchNext(c)))
                 => IF matching(c) # {}
                    THEN /\ pc'[c] = "write"
                         /\ \E i \in matching(c) : holding'[c] = tickets_to_send[i]
                         /\ ~contains(tickets_to_send', holding'[c])
                    ELSE pc'[c] = "select"]_vars

\* a ticket pushed when no connection was a Dispatcher was written to the
\* only Dispatcher, which declared itself later and is still open
C20_Witness ==
    \E c \in PumpConns :
        /\ client_type[c].kind = "Dispatcher"
        /\ \A k \in PumpConns \ {c} : client_type[k].kind # "Dispatcher"
        /\ pc[c] = "select"
        /\ Len(sent[c]) >= 1
        /\ enq_index(sent[c][1]) <= declared_at[c]

\* ---------------------------------------------- properties of the read branch

\* what a byte string decodes to when it is all in buf at once: the packets
\* cut off it in turn, the bytes left, and what ended the loop
RECURSIVE decode_stream(_, _)
decode_stream(input, packets) ==
    LET r == parse_incoming(input)
    IN IF r.status = "Ok" THEN decode_stream(r.rest, Append(packets, r.value))
       ELSE [packets |-> packets, rest |-> input, status |-> r.status]

IsPrefix(s, t) == Len(s) <= Len(t) /\ s = SubSeq(t, 1, Len(s))

\* the WantHeartbeat packets among a sequence of packets, by position
wantheartbeats(packets) == {i \in 1..Len(packets) : packets[i].type = "WantHeartbeat"}

\* connection c has applied a WantHeartbeat, and this is the first one
first_wantheartbeat(c) ==
    applied[c][CHOOSE i \in wantheartbeats(applied[c]) :
                   \A j \in wantheartbeats(applied[c]) : i <= j]

\* the handler of c is between two turns of select, or has returned
between_reads(c) == pc[c] \in {"select", "write", "drain", "closed", "panicked"}

\* C12 (as claimed): a WantHeartbeat is accepted in every role state, and a
\* second one, whatever the intervals of the two, is answered with an Error
\* and the connection is closed: a handler that has applied one WantHeartbeat
\* and nothing after it has not failed, and once the bytes read hold two
\* WantHeartbeat messages and the parse loop is over, an Error was written and
\* the handler has returned.
C12_SecondWantHeartbeatIsError ==
    \A c \in WireConns :
        /\ ( /\ Cardinality(wantheartbeats(applied[c])) = 1
             /\ applied[c][Len(applied[c])].type = "WantHeartbeat"
             /\ pc[c] = "parse" ) => err[c] = NoError
        /\ ( /\ applied[c] # << >>
             /\ applied[c][Len(applied[c])].type = "WantHeartbeat"
             /\ Cardinality(wantheartbeats(applied[c])) = 1 ) => pc[c] # "panicked"
        /\ ( /\ between_reads(c)
             /\ Cardinality(wantheartbeats(decode_stream(wire(c), << >>).packets)) >= 2 )
              => (pc[c] = "closed" /\ err[c] # NoError)

\* C13 (as claimed): after a WantHeartbeat with interval 0 the server never
\* writes a Heartbeat on the connection, however long it stays open.
C13_IntervalZeroNoHeartbeat ==
    \A c \in WireConns :
        ( /\ wantheartbeats(applied[c]) # {}
          /\ first_wantheartbeat(c).interval = 0 ) => beats[c] = 0

\* C14 (as claimed): a WantHeartbeat with interval k >= 1 arms the heartbeat
\* timer with a period of exactly k * 100 ms (k \div 10 seconds and
\* (k % 10) * 100 milliseconds), and the handler does not fail arming it.
C14_PeriodIsIntervalTimes100ms ==
    \A c \in WireConns :
        ( /\ wantheartbeats(applied[c]) # {}
          /\ first_wantheartbeat(c).interval # 0 )
           => /\ pc[c] # "panicked"
              /\ heartbeat[c] = [secs |-> first_wantheartbeat(c).interval \div 10,
                                  millis |-> (first_wantheartbeat(c).interval % 10) * 100]

\* C15: an Error is the last thing written on a connection: once it is
\* written the handler has returned, and from then on no Heartbeat and no
\* Ticket is written, no other Error replaces it, no byte is read and no
\* packet is cut off buf, whatever buf still holds.
C15_ErrorIsLast ==
    [][\A c \in WireConns :
         /\ err'[c] # NoError => pc'[c] = "closed"
         /\ err[c] # NoError =>
               /\ err'[c] = err[c]
               /\ beats'[c] = beats[c]
               /\ sent'[c] = sent[c]
               /\ holding'[c] = holding[c]
               /\ nread'[c] = nread[c]
               /\ buf'[c] = buf[c]
               /\ applied'[c] = applied[c]
               /\ client_type'[c] = client_type[c]]_vars

\* an Error was written on a connection that had asked for heartbeats, while
\* buf held a whole message behind the offending one
C15_Witness ==
    \E c \in WireConns :
        /\ err[c] # NoError
        /\ requested_heartbeat[c]
        /\ parse_incoming(buf[c]).status = "Ok"

\* C16: however the inbound bytes are cut into reads, the packets applied are
\* those the whole stream decodes to, in order: they are a prefix of the
\* decoding of everything the peer wrote; between two reads they are exactly
\* the decoding of the bytes read so far, buf is the incomplete prefix left of
\* them, on which the decoder reports Incomplete; and the Error "invalid input"
\* is written only where the whole stream fails to decode.
C16_ChunkingIsInvisible ==
    \A c \in WireConns :
        LET whole == decode_stream(stream(c), << >>)
            sofar == decode_stream(wire(c), << >>)
        IN /\ IsPrefix(applied[c], whole.packets)
           /\ pc[c] \in {"select", "write", "drain"} =>
                 /\ applied[c] = sofar.packets
                 /\ buf[c] = sofar.rest
                 /\ parse_incoming(buf[c]).status = "Incomplete"
           /\ err[c] = "invalid input" =>
                 (whole.status = "Error" /\ applied[c] = whole.packets)

\* a Plate was applied on a camera connection, and the read that brought
\* its last byte also brought an incomplete part of the next message, which
\* waits in buf while the rest of it is still unread
C16_Witness ==
    \E c \in WireConns :
        /\ pc[c] = "select"
        /\ applied[c] # << >>
        /\ applied[c][Len(applied[c])].type = "PlateReport"
        /\ client_type[c].kind = "Camera"
        /\ buf[c] # << >>
        /\ nread[c] < Len(stream(c))

\* C17: when the byte at a message boundary is none of 0x20, 0x40, 0x80, 0x81
\* the decoder reports an Error, not Incomplete; the turn of the parse loop
\* that meets it writes the Error "invalid input" and returns without cutting
\* a packet off buf or touching the Database; and the packets applied by then
\* are all those the bytes read hold before that byte.
C17_StrayByteIsHardError ==
    /\ [](\A c \in WireConns :
            err[c] = "invalid input" =>
               /\ pc[c] = "closed"
               /\ applied[c] = decode_stream(wire(c), << >>).packets
               /\ buf[c] = decode_stream(wire(c), << >>).rest
               /\ buf[c][1] \notin {32, 64, 128, 129})
    /\ [][\A c \in WireConns :
            (buf[c] # << >> /\ buf[c][1] \notin {32, 64, 128, 129} /\ ParseStep(c))
               => /\ parse_incoming(buf[c]).status = "Error"
                  /\ err'[c] = "invalid input"
                  /\ pc'[c] = "closed"
                  /\ applied'[c] = applied[c]
                  /\ UNCHANGED <<dbvars, enqueued>>]_vars

\* the byte 0x99 came behind an IAmCamera and a Plate that were applied
C17_Witness ==
    \E c \in WireConns :
        /\ err[c] = "invalid input"
        /\ Len(applied[c]) = 2
        /\ applied[c][2].type = "PlateReport"
        /\ \E i \in 1..Len(observations[UN1X]) : observations[UN1X][i].timestamp = 45

\* ------------------------------------- properties of the ticket evaluation

\* the evaluation of the windows as claimed: a ticket for the pair exactly
\* when its timestamps increase, its speed is over the limit by more than 0.1
\* and neither of its days is among the plate's issued days
RECURSIVE claimed_windows(_, _, _, _, _, _)
claimed_windows(obs, i, limit, plate, road, acc) ==
    IF i + 1 > Len(obs) THEN acc
    ELSE LET o1 == obs[i]
             o2 == obs[i + 1]
             day1 == day_of(o1.timestamp)
             day2 == day_of(o2.timestamp)
             next == IF /\ o1.timestamp < o2.timestamp
                        /\ over_limit(o1, o2, limit)
                        /\ ~contains(acc.issued, day1)
                        /\ ~contains(acc.issued, day2)
                     THEN [issued |-> push_days(acc.issued, day1, day2),
                           pushed |-> Append(acc.pushed, make_ticket(plate, road, o1, o2))]
                     ELSE acc
         IN claimed_windows(obs, i + 1, limit, plate, road, next)

\* this step is a record_observation on the plate with the road as the
\* incoming road: the call is counted and the road has one more observation
incoming(plate, road) ==
    /\ nobs' = nobs + 1
    /\ Len(filter_road(observations'[plate], road))
          = Len(filter_road(observations[plate], road)) + 1

\* C26 (as claimed): each record_observation that evaluates tickets enqueues a
\* ticket for an adjacent pair of the incoming road if and only if the pair's
\* timestamps increase, its speed exceeds limit + 0.1 and neither of its days
\* is issued, adding both days with the ticket; a skipped pair changes neither
\* the issued days nor the pending queue.
C26_TicketIffRule ==
    [][\A plate \in Plates, road \in Roads :
          ( /\ incoming(plate, road)
            /\ Len(observations'[plate]) > 1 )
          => LET claimed == claimed_windows(filter_road(observations'[plate], road), 1,
                                            speed_limits[road], plate, road,
                                            [issued |-> tickets_issued[plate],
                                             pushed |-> << >>])
             IN /\ tickets_to_send' = tickets_to_send \o claimed.pushed
                /\ Range(tickets_issued'[plate]) = Range(claimed.issued)]_vars

\* C27: a record_observation that leaves the plate with two or more
\* observations evaluates every adjacent pair of the incoming road, whatever
\* the order of arrival: when it returns, each adjacent pair of that road that
\* is over the road's limit has one of its two days among the issued days.
C27_EveryAdjacentPairEvaluated ==
    [][\A plate \in Plates, road \in Roads :
          ( /\ incoming(plate, road)
            /\ Len(observations'[plate]) > 1 )
          => LET f == filter_road(observations'[plate], road)
             IN \A i \in 1..(Len(f) - 1) :
                   over_limit(f[i], f[i + 1], speed_limits'[road])
                      => \/ contains(tickets_issued'[plate], day_of(f[i].timestamp))
                         \/ contains(tickets_issued'[plate], day_of(f[i + 1].timestamp))]_vars

\* an observation arrived late between the two observations of a ticket issued
\* before, it forms an over-limit pair with a neighbour, and that pair was
\* skipped because one of its days is issued
C27_Witness ==
    \E plate \in Plates, road \in Roads :
        LET f == filter_road(observations[plate], road)
        IN \E k \in tickets_of(plate), i \in over_pairs(plate, road) :
              /\ enqueued[k].road = road
              /\ \E j \in {i, i + 1} :
                    /\ enqueued[k].timestamp1 < f[j].timestamp
                    /\ f[j].timestamp < enqueued[k].timestamp2
              /\ \A m \in tickets_of(plate) :
                    <<enqueued[m].timestamp1, enqueued[m].timestamp2>>
                       # <<f[i].timestamp, f[i + 1].timestamp>>

\* ------------------------------------------ properties of the issued days

\* the start and end days of the tickets ever pushed for a plate
ticket_days(plate) ==
    {day1_of(enqueued[i]) : i \in tickets_of(plate)}
       \cup {day2_of(enqueued[i]) : i \in tickets_of(plate)}

NoDuplicates(s) == \A i, j \in 1..Len(s) : s[i] = s[j] => i = j

\* C30: each plate's issued-day list holds no day twice and holds exactly the
\* start and end days of the tickets ever enqueued for the plate; the list
\* only grows, and only in a step that enqueues a ticket, so handing a ticket
\* to a dispatcher leaves it unchanged.
C30_IssuedDaysAreTicketDays ==
    /\ [](\A plate \in Plates :
            /\ NoDuplicates(tickets_issued[plate])
            /\ Range(tickets_issued[plate]) = ticket_days(plate))
    /\ [][\A plate \in Plates :
            /\ IsPrefix(tickets_issued[plate], tickets_issued'[plate])
            /\ tickets_issued'[plate] # tickets_issued[plate]
                  => Len(enqueued') > Len(enqueued)
            /\ Len(tickets_to_send') < Len(tickets_to_send)
                  => tickets_issued' = tickets_issued]_vars

\* a ticket lying on one day and a ticket spanning two days were enqueued for
\* a plate, an over-limit pair was skipped for an issued day, and a ticket
\* has been handed out
C30_Witness ==
    \E plate \in Plates :
        /\ \E i, j \in tickets_of(plate) :
              /\ day1_of(enqueued[i]) = day2_of(enqueued[i])
              /\ day1_of(enqueued[j]) # day2_of(enqueued[j])
        /\ \E road \in Roads :
              Cardinality(over_pairs(plate, road)) > Cardinality(tickets_of(plate))
        /\ Len(tickets_to_send) < Len(enqueued)

\* ------------------------------------------ properties of the limit lookup

\* C29: every road of a stored observation has an entry in speed_limits, so
\* the lookup of the limit in issue_tickets finds it and the Database mutex is
\* never poisoned by the expect() failing under the lock, for any interleaving
\* of camera connections.
C29_ObservedRoadHasLimit ==
    /\ ~poisoned
    /\ \A plate \in Plates :
          \A i \in 1..Len(observations[plate]) :
             observations[plate][i].road \in DOMAIN speed_limits

\* two cameras on different roads have reported the same plate, so the second
\* report looked up the limit of its road, while one camera has left
C29_Witness ==
    \E plate \in Plates :
        /\ \E i, j \in 1..Len(observations[plate]) :
              observations[plate][i].road # observations[plate][j].road
        /\ \E c \in PumpConns : pc[c] = "closed" /\ client_type[c].kind = "Camera"

\* ------------------------------------------ properties of the Database lock

\* the task of c is suspended at an await: in select (socket read and timer
\* ticks) or in the write_all of a ticket
suspended(c) == pc[c] \in {"select", "write"}

\* C28: no task holds the MutexGuard of the Database while it is suspended on
\* a socket write, a socket read or a timer: whoever holds it is inside one
\* Database call and can end it without waiting for anyone, so the lock is
\* free or about to be freed whatever the dispatchers' writes do.
C28_NoGuardAcrossAwait ==
    \A c \in PumpConns :
        /\ suspended(c) => mutex # c
        /\ pc[c] \in {"none", "drain", "closed", "panicked"} => mutex # c
        /\ mutex = c => ENABLED <<GuardDropped(c)>>_vars

\* a dispatcher is suspended in the write of a ticket while a camera's task
\* holds the guard inside record_observation
C28_Witness ==
    \E c, d \in PumpConns :
        /\ pc[c] = "write"
        /\ holding[c] # NoTicket
        /\ pc[d] = "record_observation"
        /\ mutex = d

\* ------------------------------------------ properties of the line rewrite

\* a Boguscoin address as claimed: '7' followed by 25 to 34 bytes of
\* [A-Za-z0-9]
is_address(token) ==
    /\ Len(token) \in 26..35
    /\ token[1] = 55
    /\ \A i \in 2..Len(token) : is_ascii_alphanumeric(token[i])

\* the line as claimed, from byte `from` on: each run of bytes between spaces
\* (or the edges of the line) that is an address becomes the tote address,
\* every other byte stays, and one LF ends the line
RECURSIVE claimed_from(_, _)
claimed_from(line, from) ==
    IF from > Len(line) THEN <<LF>>
    ELSE IF line[from] = SP THEN <<SP>> \o claimed_from(line, from + 1)
    ELSE LET stops == {i \in from..Len(line) : line[i] = SP}
             end == IF stops = {} THEN Len(line)
                    ELSE (CHOOSE i \in stops : \A j \in stops : i <= j) - 1
             token == SubSeq(line, from, end)
         IN (IF is_address(token) THEN TOTE ELSE token) \o claimed_from(line, end + 1)

\* C25 (as claimed): what is written for a line is the line with exactly the
\* tokens that are '7' plus 25 to 34 bytes of [A-Za-z0-9], bounded by spaces
\* or the line's edges, replaced by the tote address, every other byte
\* verbatim, and one LF appended.
C25_RewriteOnlyAddresses ==
    \A i \in 1..Len(forwarded) : forwarded[i][2] = claimed_from(forwarded[i][1], 1)

\* ------------------------------------------------ properties of Budget Chat

\* C21 (as claimed): the first line of a client becomes its nickname if and
\* only if it is non-empty and all ASCII alphanumeric; any other first line,
\* the empty one included, is rejected: the client never gets a nick and its
\* task ends, which drops both halves of the socket.
C21_NickIffNonEmptyAlphanumeric ==
    [][\A c \in ChatClients, l \in ChatLines :
          (~nick[c].some /\ ClientLine(c, l))
             => IF Len(l) > 0 /\ \A i \in 1..Len(l) : is_ascii_alphanumeric(l[i])
                THEN nick'[c] = Some(l) /\ task'[c] = "running"
                ELSE ~nick'[c].some /\ task'[c] = "ended"]_vars

\* the notices and chat lines written to client c, in order
notices(c) == SelectSeq(to_network[c], LAMBDA w : w.fmt \in {"* {} has joined", "[{}] {}", "* {} has left"})

\* client c was sent a listing of the room: something other than the
\* greeting, the rejection of a nick and the notices of what others do
has_listing(c) ==
    \E j \in 1..Len(to_network[c]) :
        to_network[c][j].fmt \notin {"hi what your nick", ":x", "* {} has joined",
                                     "[{}] {}", "* {} has left"}

\* C22 (as claimed): a client that registers a nick is sent a room listing,
\* and the notice of its entry goes to registered clients other than itself
\* only.
C22_JoinerGetsRoomListing ==
    /\ [](\A d \in ChatClients : \A j \in 1..Len(notices(d)) :
             notices(d)[j].fmt = "* {} has joined"
                => nick[d].some /\ notices(d)[j].from # d)
    /\ \A c \in ChatClients : (nick[c].some /\ task[c] = "running") ~> has_listing(c)

\* client c, which had a nick, has sent Left: only the end of run() of a
\* client with a nick ends its task
left_sent(c) == nick[c].some /\ task[c] = "ended"

\* C23 (as claimed): when the read of a client's socket ends, a notice that
\* it left goes out if and only if it had a nick: a client with a nick whose
\* read has ended sends Left, and a left notice names a client that had one.
C23_LeftIffRegistered ==
    /\ [](\A d \in ChatClients : \A j \in 1..Len(notices(d)) :
             notices(d)[j].fmt = "* {} has left" => nick[notices(d)[j].from].some)
    /\ \A c \in ChatClients : (nick[c].some /\ read_ended[c]) ~> left_sent(c)

\* the chat lines of client c written to client d, in order
heard(d, c) ==
    LET from_c == SelectSeq(notices(d), LAMBDA w : w.fmt = "[{}] {}" /\ w.from = c)
    IN [j \in 1..Len(from_c) |-> from_c[j].msg]

\* s is a run of consecutive elements of t
IsSlice(s, t) ==
    \E k \in 0..(Len(t) - Len(s)) : s = SubSeq(t, k + 1, k + Len(s))

\* a line of client c waits in its channel to the Server
pending(c, l) ==
    \E i \in 1..Len(to_server[c]) :
        to_server[c][i].message.type = "Message" /\ to_server[c][i].message.msg = l

\* C24 (as claimed): chat lines go to clients with a nick other than the
\* sender only, the lines of one sender in the order it sent them, and a line
\* a client with a nick has sent reaches every other client that has a nick
\* and is known to the Server, for as long as that client is there, whoever
\* joined or left before.
C24_EveryLineReachesTheOthers ==
    /\ [](\A d \in ChatClients :
            /\ \A j \in 1..Len(notices(d)) : nick[d].some /\ notices(d)[j].from # d
            /\ \A c \in ChatClients : IsSlice(heard(d, c), said[c]))
    /\ \A p \in {q \in ChatClients \X ChatClients : q[1] # q[2]} : \A l \in ChatLines :
          (pending(p[1], l) /\ nick[p[2]].some /\ p[2] \in Range(clients)
                            /\ task[p[2]] = "running")
             ~> (l \in Range(heard(p[2], p[1])) \/ task[p[2]] # "running")

====
